---------------------------- MODULE Spec2Model ----------------------------
(***************************************************************************)
(* A model of the pULID JavaScript library: the Crockford Base32 codec,   *)
(* the hex/UUID codec, timestamp and scope handling, and the pULID value  *)
(* type with its construction and parsing paths.                          *)
(*                                                                         *)
(* Representation of JavaScript values                                     *)
(*   - a string is [type |-> "string", s |-> <<code units>>]: every       *)
(*     operation of the code on strings (charCodeAt, charAt, substring,   *)
(*     join, <) is an operation on UTF-16 code units;                     *)
(*   - a Uint8Array is [type |-> "Uint8Array", s |-> <<bytes>>];          *)
(*   - undefined, null and other non-sequence values carry s = <<>>;      *)
(*   - a number that may need 48 bits is kept in two 24-bit limbs         *)
(*     [kind |-> "int", hi |-> h, lo |-> l], value h * 2^24 + l, because  *)
(*     the model checker's integers have 32 bits; JavaScript's doubles    *)
(*     are exact on the whole range the code accepts (below 2^53);        *)
(*   - a call returns Ok(value) or Throw(error class).                    *)
(***************************************************************************)
EXTENDS Integers, Sequences, FiniteSets, TLC

VARIABLES pc, args, mid, out, x, y, z

vars == <<pc, args, mid, out, x, y, z>>

-----------------------------------------------------------------------------
(* Bounds of the model. *)

\* Byte patterns 0 .. MaxBg are used as the background of sampled arrays.
MaxBg == 1

\* Sampled strings have between 26 - MaxLenDelta and 26 + MaxLenDelta units.
MaxLenDelta == 1

-----------------------------------------------------------------------------
(* JavaScript values and call results. *)

Str(s) == [type |-> "string", s |-> s]
U8(s) == [type |-> "Uint8Array", s |-> s]
Other(t) == [type |-> t, s |-> <<>>]
JsUndefined == Other("undefined")
JsNull == Other("null")

\* !v for the values above: undefined, null and the empty string are falsy.
Falsy(v) == v.type \in {"undefined", "null"} \/ (v.type = "string" /\ v.s = <<>>)

\* v.length: defined for strings and typed arrays only.
HasLength(v, n) == v.type \in {"string", "Uint8Array"} /\ Len(v.s) = n

Ok(v) == [ok |-> TRUE, err |-> "none", val |-> v]
Throw(e) == [ok |-> FALSE, err |-> e, val |-> <<>>]
Nothing == [ok |-> FALSE, err |-> "not called", val |-> <<>>]

\* No object: the value of a slot that holds no identifier.
NoId == [timestamp |-> [kind |-> "none", hi |-> 0, lo |-> 0], scope |-> 0 - 1, entropy |-> <<>>]

-----------------------------------------------------------------------------
(* Integer operators of JavaScript on the non-negative values the code     *)
(* applies them to.                                                        *)

RECURSIVE BitAnd(_, _)
BitAnd(a, b) ==
  IF a = 0 \/ b = 0 THEN 0
  ELSE (a % 2) * (b % 2) + 2 * BitAnd(a \div 2, b \div 2)

RECURSIVE BitOr(_, _)
BitOr(a, b) ==
  IF a = 0 THEN b
  ELSE IF b = 0 THEN a
  ELSE (IF a % 2 = 1 \/ b % 2 = 1 THEN 1 ELSE 0) + 2 * BitOr(a \div 2, b \div 2)

RECURSIVE Pow2(_)
Pow2(k) == IF k = 0 THEN 1 ELSE 2 * Pow2(k - 1)

ShL(a, k) == a * Pow2(k)
ShR(a, k) == a \div Pow2(k)

\* A store into a Uint8Array keeps the low 8 bits.
U8Store(n) == n % 256

\* The value an out-of-range array read yields (undefined), and its
\* conversion by the integer operators (ToInt32(undefined) = 0).
UNDEF == 0 - 1
ToInt32(v) == IF v = UNDEF THEN 0 ELSE v

charCodeAt(str, i) == str.s[i + 1]

ToLowerCase(c) == IF c \in 65..90 THEN c + 32 ELSE c

LowerStr(s) == [i \in 1..Len(s) |-> ToLowerCase(s[i])]

ToUpperCase(c) == IF c \in 97..122 THEN c - 32 ELSE c

UpperStr(s) == [i \in 1..Len(s) |-> ToUpperCase(s[i])]

\* a < b on strings: lexicographic on code units.
RECURSIVE StrLess(_, _)
StrLess(a, b) ==
  IF b = <<>> THEN FALSE
  ELSE IF a = <<>> THEN TRUE
  ELSE IF a[1] # b[1] THEN a[1] < b[1]
  ELSE StrLess(Tail(a), Tail(b))

-----------------------------------------------------------------------------
(* encoding.js: Crockford Base32. *)

\* An alphabet that keeps I: '0123456789ABCDEFGHIJKMNPQRSTVWXY'.
ENCODINGWithI ==
  << 48, 49, 50, 51, 52, 53, 54, 55, 56, 57,
     65, 66, 67, 68, 69, 70, 71, 72, 73, 74,
     75, 77, 78, 80, 81, 82, 83, 84, 86, 87, 88, 89 >>

\* '0123456789ABCDEFGHJKMNPQRSTVWXYZ'
ENCODING ==
  << 48, 49, 50, 51, 52, 53, 54, 55, 56, 57,
     65, 66, 67, 68, 69, 70, 71, 72, 74, 75,
     77, 78, 80, 81, 82, 83, 84, 86, 87, 88, 89, 90 >>

\* ENCODING.charAt(v)
charAt(v) == ENCODING[v + 1]

\* The table after the loop over ENCODING: 0xFF marks an invalid character.
C2B32Filled ==
  [c \in 0..255 |->
     IF \E i \in 0..31 : charAt(i) = c \/ ToLowerCase(charAt(i)) = c
     THEN CHOOSE i \in 0..31 : charAt(i) = c \/ ToLowerCase(charAt(i)) = c
     ELSE 255]

\* The table with the special mappings I, L -> 1, O -> 0, U -> 22.
C2B32 ==
  [C2B32Filled EXCEPT ![73] = 1, ![105] = 1, ![76] = 1, ![108] = 1,
                      ![79] = 0, ![111] = 0, ![85] = 22, ![117] = 22]

\* C2B32[code]: a read past the 256 entries yields undefined.
C2B32At(code) == IF code \in DOMAIN C2B32 THEN C2B32[code] ELSE UNDEF

encodeBase32(id) ==
  IF Falsy(id) \/ ~HasLength(id, 16) THEN Throw("Error")
  ELSE LET b(k) == id.s[k + 1] IN
    Ok(Str(<<
      charAt(ShR(BitAnd(b(0), 224), 5)),
      charAt(BitAnd(b(0), 31)),
      charAt(ShR(BitAnd(b(1), 248), 3)),
      charAt(BitOr(ShL(BitAnd(b(1), 7), 2), ShR(BitAnd(b(2), 192), 6))),
      charAt(ShR(BitAnd(b(2), 62), 1)),
      charAt(BitOr(ShL(BitAnd(b(2), 1), 4), ShR(BitAnd(b(3), 240), 4))),
      charAt(BitOr(ShL(BitAnd(b(3), 15), 1), ShR(BitAnd(b(4), 128), 7))),
      charAt(ShR(BitAnd(b(4), 124), 2)),
      charAt(BitOr(ShL(BitAnd(b(4), 3), 3), ShR(BitAnd(b(5), 224), 5))),
      charAt(BitAnd(b(5), 31)),
      charAt(ShR(BitAnd(b(6), 248), 3)),
      charAt(BitOr(ShL(BitAnd(b(6), 7), 2), ShR(BitAnd(b(7), 192), 6))),
      charAt(ShR(BitAnd(b(7), 62), 1)),
      charAt(BitOr(ShL(BitAnd(b(7), 1), 4), ShR(BitAnd(b(8), 240), 4))),
      charAt(BitOr(ShL(BitAnd(b(8), 15), 1), ShR(BitAnd(b(9), 128), 7))),
      charAt(ShR(BitAnd(b(9), 124), 2)),
      charAt(BitOr(ShL(BitAnd(b(9), 3), 3), ShR(BitAnd(b(10), 224), 5))),
      charAt(BitAnd(b(10), 31)),
      charAt(ShR(BitAnd(b(11), 248), 3)),
      charAt(BitOr(ShL(BitAnd(b(11), 7), 2), ShR(BitAnd(b(12), 192), 6))),
      charAt(ShR(BitAnd(b(12), 62), 1)),
      charAt(BitOr(ShL(BitAnd(b(12), 1), 4), ShR(BitAnd(b(13), 240), 4))),
      charAt(BitOr(ShL(BitAnd(b(13), 15), 1), ShR(BitAnd(b(14), 128), 7))),
      charAt(ShR(BitAnd(b(14), 124), 2)),
      charAt(BitOr(ShL(BitAnd(b(14), 3), 3), ShR(BitAnd(b(15), 224), 5))),
      charAt(BitAnd(b(15), 31)) >>))

\* The validation loop: some character's table entry is 0xFF.
HasInvalidCharacter(str) == \E i \in 0..25 : C2B32At(charCodeAt(str, i)) = 255

\* The overflow check without the comparison to '7'.
TimestampOverflowNever(str) == FALSE

\* str.charCodeAt(0) > '7'.charCodeAt(0)
TimestampOverflow(str) == charCodeAt(str, 0) > 55

decodeBase32(str) ==
  IF str.type # "string" THEN Throw("Error")
  ELSE IF Len(str.s) # 26 THEN Throw("Error")
  ELSE IF HasInvalidCharacter(str) THEN Throw("Error")
  ELSE IF TimestampOverflow(str) THEN Throw("Error")
  ELSE LET v(i) == ToInt32(C2B32At(charCodeAt(str, i))) IN
    Ok(U8(<<
      U8Store(BitOr(ShL(v(0), 5), v(1))),
      U8Store(BitOr(ShL(v(2), 3), ShR(v(3), 2))),
      U8Store(BitOr(BitOr(ShL(v(3), 6), ShL(v(4), 1)), ShR(v(5), 4))),
      U8Store(BitOr(ShL(v(5), 4), ShR(v(6), 1))),
      U8Store(BitOr(BitOr(ShL(v(6), 7), ShL(v(7), 2)), ShR(v(8), 3))),
      U8Store(BitOr(ShL(v(8), 5), v(9))),
      U8Store(BitOr(ShL(v(10), 3), ShR(v(11), 2))),
      U8Store(BitOr(BitOr(ShL(v(11), 6), ShL(v(12), 1)), ShR(v(13), 4))),
      U8Store(BitOr(ShL(v(13), 4), ShR(v(14), 1))),
      U8Store(BitOr(BitOr(ShL(v(14), 7), ShL(v(15), 2)), ShR(v(16), 3))),
      U8Store(BitOr(ShL(v(16), 5), v(17))),
      U8Store(BitOr(ShL(v(18), 3), ShR(v(19), 2))),
      U8Store(BitOr(BitOr(ShL(v(19), 6), ShL(v(20), 1)), ShR(v(21), 4))),
      U8Store(BitOr(ShL(v(21), 4), ShR(v(22), 1))),
      U8Store(BitOr(BitOr(ShL(v(22), 7), ShL(v(23), 2)), ShR(v(24), 3))),
      U8Store(BitOr(ShL(v(24), 5), v(25))) >>))

-----------------------------------------------------------------------------
(* Numbers that may need 48 bits: value = hi * 2^24 + lo, 0 <= lo < 2^24. *)

Limb == 4096 * 4096

Num(hi, lo) == [kind |-> "int", hi |-> hi, lo |-> lo]
NotInt(kind) == [kind |-> kind, hi |-> 0, lo |-> 0]

\* typeof v === 'number'
IsNumber(v) == v.kind \in {"int", "float", "NaN"}
\* Number.isInteger(v)
IsInteger(v) == v.kind = "int"

NumLess(a, b) == a.hi < b.hi \/ (a.hi = b.hi /\ a.lo < b.lo)

\* n & 0xff: ToInt32 keeps the low 32 bits of n, of which & keeps the low 8.
NumAnd255(n) == BitAnd(n.lo, 255)

\* Math.floor(n / 256)
NumFloorDiv256(n) == Num(n.hi \div 256, (n.hi % 256) * 65536 + (n.lo \div 256))

\* n * 256 + b
NumMul256Add(n, b) == Num(n.hi * 256 + (n.lo \div 65536), (n.lo % 65536) * 256 + b)

-----------------------------------------------------------------------------
(* encoding.js: field extraction from the 16 bytes. *)

RECURSIVE bytesToTimestampLoop(_, _, _)
bytesToTimestampLoop(bytes, i, timestamp) ==
  IF i < 6
  THEN bytesToTimestampLoop(bytes, i + 1, NumMul256Add(timestamp, bytes.s[i + 1]))
  ELSE timestamp

bytesToTimestamp(bytes) == bytesToTimestampLoop(bytes, 0, Num(0, 0))

\* The two scope bytes read in the other order.
bytesToScopeLittleEndian(bytes) == BitOr(ShL(bytes.s[8], 8), bytes.s[7])

bytesToScope(bytes) == BitOr(ShL(bytes.s[7], 8), bytes.s[8])

\* The slice taken one byte early.
bytesToEntropyFromByte7(bytes) == U8(SubSeq(bytes.s, 8, 15))

\* bytes.slice(8, 16)
bytesToEntropy(bytes) == U8(SubSeq(bytes.s, 9, 16))

-----------------------------------------------------------------------------
(* timestamp.js *)

MIN_TIMESTAMP == Num(0, 0)
\* 2^48 - 1 = 281474976710655
MAX_TIMESTAMP == Num(Limb - 1, Limb - 1)

validateTimestamp(timestamp) ==
  IF ~IsNumber(timestamp) \/ ~IsInteger(timestamp) THEN Throw("pULIDTimestampError")
  ELSE IF NumLess(timestamp, MIN_TIMESTAMP) THEN Throw("pULIDTimestampError")
  ELSE IF NumLess(MAX_TIMESTAMP, timestamp) THEN Throw("pULIDTimestampError")
  ELSE Ok(TRUE)

\* The loop filling the array from the first byte (little-endian).
RECURSIVE timestampToBytesLoopAscending(_, _, _)
timestampToBytesLoopAscending(timestamp, i, bytes) ==
  IF i >= 0
  THEN timestampToBytesLoopAscending(NumFloorDiv256(timestamp), i - 1,
                                     [bytes EXCEPT ![6 - i] = U8Store(NumAnd255(timestamp))])
  ELSE bytes

\* for (i = 5; i >= 0; i--) { bytes[i] = timestamp & 0xff; timestamp = floor(timestamp / 256) }
RECURSIVE timestampToBytesLoop(_, _, _)
timestampToBytesLoop(timestamp, i, bytes) ==
  IF i >= 0
  THEN timestampToBytesLoop(NumFloorDiv256(timestamp), i - 1,
                            [bytes EXCEPT ![i + 1] = U8Store(NumAnd255(timestamp))])
  ELSE bytes

timestampToBytes(timestamp) ==
  IF ~validateTimestamp(timestamp).ok THEN validateTimestamp(timestamp)
  ELSE Ok(U8(timestampToBytesLoop(timestamp, 5, <<0, 0, 0, 0, 0, 0>>)))

\* TimestampGenerator.bytesToTimestamp(bytes), exported as bytesToTimestamp.
TimestampGenerator_bytesToTimestamp(bytes) ==
  IF Falsy(bytes) \/ Len(bytes.s) # 16 THEN Throw("pULIDTimestampError")
  ELSE IF ~validateTimestamp(bytesToTimestampLoop(bytes, 0, Num(0, 0))).ok
  THEN validateTimestamp(bytesToTimestampLoop(bytes, 0, Num(0, 0)))
  ELSE Ok(bytesToTimestampLoop(bytes, 0, Num(0, 0)))

-----------------------------------------------------------------------------
(* scope.js (ScopeManager). A scope argument is [kind, n]. *)

ScopeV(n) == [kind |-> "int", n |-> n]
NotIntScope(kind) == [kind |-> kind, n |-> 1]

MIN_SCOPE == 0
MAX_SCOPE == 65535

\* scope === 0
IsZero(scope) == scope.kind = "int" /\ scope.n = 0

\* The validation without the upper limit.
validateScopeNoUpperLimit(scope) ==
  IF ~IsNumber(scope) \/ ~IsInteger(scope) THEN Throw("pULIDScopeError")
  ELSE IF scope.n < 0 THEN Throw("pULIDScopeError")
  ELSE IF scope.n = 0 THEN Ok(MAX_SCOPE)
  ELSE Ok(TRUE)

validateScope(scope) ==
  IF ~IsNumber(scope) \/ ~IsInteger(scope) THEN Throw("pULIDScopeError")
  ELSE IF scope.n < 0 THEN Throw("pULIDScopeError")
  ELSE IF scope.n = 0 THEN Ok(MAX_SCOPE)
  ELSE IF scope.n > MAX_SCOPE THEN Throw("pULIDScopeError")
  ELSE Ok(TRUE)

scopeToBytes(scope) ==
  LET actualScope == IF IsZero(scope) THEN MAX_SCOPE ELSE scope.n IN
  IF ~IsZero(scope) /\ ~validateScope(scope).ok THEN validateScope(scope)
  ELSE Ok(U8(<< BitAnd(ShR(actualScope, 8), 255), BitAnd(actualScope, 255) >>))

-----------------------------------------------------------------------------
(* uuid.js (UUIDConverter) *)

UUID_LENGTH == 36
HEX_LENGTH == 32

IsHexDigit(c) == c \in 48..57 \/ c \in 97..102 \/ c \in 65..70

\* The pattern without the i flag: lowercase digits only.
UUID_REGEX_testCaseSensitive(s) ==
  /\ Len(s) = 36
  /\ \A i \in 1..36 :
       IF i \in {9, 14, 19, 24} THEN s[i] = 45 ELSE (s[i] \in 48..57 \/ s[i] \in 97..102)

\* /^[0-9a-f]{8}-[0-9a-f]{4}-[0-9a-f]{4}-[0-9a-f]{4}-[0-9a-f]{12}$/i .test(s)
UUID_REGEX_test(s) ==
  /\ Len(s) = 36
  /\ \A i \in 1..36 :
       IF i \in {9, 14, 19, 24} THEN s[i] = 45 ELSE IsHexDigit(s[i])

validateUUID(uuid) ==
  IF uuid.type # "string" THEN Throw("pULIDUUIDError")
  ELSE IF Len(uuid.s) # UUID_LENGTH THEN Throw("pULIDUUIDError")
  ELSE IF ~UUID_REGEX_test(uuid.s) THEN Throw("pULIDUUIDError")
  ELSE Ok(TRUE)

\* One digit of Number.prototype.toString(16): lowercase.
HexDigitOf(d) == IF d < 10 THEN 48 + d ELSE 97 + (d - 10)

\* b.toString(16) without the padding to two digits.
ByteToHexNoPad(b) ==
  IF b < 16 THEN << HexDigitOf(b) >>
  ELSE << HexDigitOf(b \div 16), HexDigitOf(b % 16) >>

\* b.toString(16).padStart(2, '0')
ByteToHex(b) ==
  LET digits == IF b < 16 THEN << HexDigitOf(b) >>
                ELSE << HexDigitOf(b \div 16), HexDigitOf(b % 16) >>
  IN IF Len(digits) < 2 THEN << 48 >> \o digits ELSE digits

\* The pairs joined last byte first.
RECURSIVE JoinHexReversed(_)
JoinHexReversed(bs) ==
  IF bs = <<>> THEN <<>> ELSE JoinHexReversed(Tail(bs)) \o ByteToHex(Head(bs))

RECURSIVE JoinHex(_)
JoinHex(bs) == IF bs = <<>> THEN <<>> ELSE ByteToHex(Head(bs)) \o JoinHex(Tail(bs))

\* hex.substring(a, b), for 0 <= a <= b: both indexes are clamped to the length.
substring(s, a, b) ==
  LET lo == IF a > Len(s) THEN Len(s) ELSE a
      hi == IF b > Len(s) THEN Len(s) ELSE b
  IN SubSeq(s, lo + 1, hi)

formatAsUUID(bytes) ==
  IF Falsy(bytes) \/ ~HasLength(bytes, 16) THEN Throw("pULIDUUIDError")
  ELSE LET hex == JoinHex(bytes.s) IN
    Ok(Str(LowerStr(substring(hex, 0, 8) \o << 45 >> \o substring(hex, 8, 12) \o << 45 >>
                    \o substring(hex, 12, 16) \o << 45 >> \o substring(hex, 16, 20)
                    \o << 45 >> \o substring(hex, 20, 32))))

\* The value of one hex digit, or UNDEF when c is none.
HexValue(c) ==
  IF c \in 48..57 THEN c - 48
  ELSE IF c \in 97..102 THEN c - 87
  ELSE IF c \in 65..70 THEN c - 55
  ELSE UNDEF

\* parseInt(pair, 16) on a two-character string: the longest hex prefix, NaN
\* (UNDEF here) when the first character is no hex digit.
parseInt16(pair) ==
  IF HexValue(pair[1]) = UNDEF THEN UNDEF
  ELSE IF HexValue(pair[2]) = UNDEF THEN HexValue(pair[1])
  ELSE HexValue(pair[1]) * 16 + HexValue(pair[2])

\* uuid.replace(/-/g, '')
RECURSIVE RemoveHyphens(_)
RemoveHyphens(s) ==
  IF s = <<>> THEN <<>>
  ELSE IF Head(s) = 45 THEN RemoveHyphens(Tail(s))
  ELSE << Head(s) >> \o RemoveHyphens(Tail(s))

uuidToBytes(uuid) ==
  IF ~validateUUID(uuid).ok THEN validateUUID(uuid)
  ELSE LET hex == LowerStr(RemoveHyphens(uuid.s)) IN
    IF Len(hex) # HEX_LENGTH THEN Throw("pULIDUUIDError")
    ELSE IF \E i \in 0..15 : parseInt16(substring(hex, i * 2, i * 2 + 2)) = UNDEF
    THEN Throw("pULIDUUIDError")
    ELSE Ok(U8([i \in 1..16 |-> U8Store(parseInt16(substring(hex, (i - 1) * 2, (i - 1) * 2 + 2)))]))

\* UUIDConverter.extractScope(uuid)
extractScope(uuid) ==
  LET bytes == uuidToBytes(uuid) IN
    IF ~bytes.ok THEN bytes
    ELSE LET extractedScope == BitOr(ShL(bytes.val.s[7], 8), bytes.val.s[8]) IN
      Ok(IF extractedScope = 65535 THEN 0 ELSE extractedScope)

-----------------------------------------------------------------------------
(* pulid.js: the pULID class. An object is [timestamp, scope, entropy]:    *)
(* timestamp a number, scope an integer, entropy the object's own copy of  *)
(* the bytes.                                                              *)

\* new Uint8Array(entropy): a copy of the bytes of a typed array.
NewUint8Array(v) == IF v.type = "Uint8Array" THEN v.s ELSE <<>>

\* The constructor storing the scope as given (no 0 -> 65535).
pULIDStoringScopeAsGiven(timestamp, scope, entropy) ==
  IF ~validateTimestamp(timestamp).ok THEN validateTimestamp(timestamp)
  ELSE IF ~IsZero(scope) /\ ~validateScope(scope).ok THEN validateScope(scope)
  ELSE IF Falsy(entropy) \/ ~HasLength(entropy, 8) THEN Throw("pULIDError")
  ELSE Ok([timestamp |-> timestamp, scope |-> scope.n, entropy |-> NewUint8Array(entropy)])

\* The constructor testing the entropy length first.
pULIDEntropyFirst(timestamp, scope, entropy) ==
  LET actualScope == IF IsZero(scope) THEN 65535 ELSE scope.n IN
  IF Falsy(entropy) \/ ~HasLength(entropy, 8) THEN Throw("pULIDError")
  ELSE IF ~validateTimestamp(timestamp).ok THEN validateTimestamp(timestamp)
  ELSE IF ~IsZero(scope) /\ ~validateScope(scope).ok THEN validateScope(scope)
  ELSE Ok([timestamp |-> timestamp, scope |-> actualScope, entropy |-> NewUint8Array(entropy)])

\* new pULID(timestamp, scope, entropy)
pULID(timestamp, scope, entropy) ==
  LET actualScope == IF IsZero(scope) THEN 65535 ELSE scope.n IN
  IF ~validateTimestamp(timestamp).ok THEN validateTimestamp(timestamp)
  ELSE IF ~IsZero(scope) /\ ~validateScope(scope).ok THEN validateScope(scope)
  ELSE IF Falsy(entropy) \/ ~HasLength(entropy, 8) THEN Throw("pULIDError")
  ELSE Ok([timestamp |-> timestamp, scope |-> actualScope, entropy |-> NewUint8Array(entropy)])

\* The layout with the scope after the entropy.
toBytesScopeLast(self) ==
  LET timestampBytes == timestampToBytes(self.timestamp)
      scopeBytes == scopeToBytes(ScopeV(self.scope))
  IN IF ~timestampBytes.ok THEN timestampBytes
     ELSE IF ~scopeBytes.ok THEN scopeBytes
     ELSE Ok(U8(timestampBytes.val.s \o self.entropy \o scopeBytes.val.s))

toBytes(self) ==
  LET timestampBytes == timestampToBytes(self.timestamp)
      scopeBytes == scopeToBytes(ScopeV(self.scope))
  IN IF ~timestampBytes.ok THEN timestampBytes
     ELSE IF ~scopeBytes.ok THEN scopeBytes
     ELSE Ok(U8(timestampBytes.val.s \o scopeBytes.val.s \o self.entropy))

toString(self) ==
  IF ~toBytes(self).ok THEN toBytes(self) ELSE encodeBase32(toBytes(self).val)

toUUID(self) ==
  IF ~toBytes(self).ok THEN toBytes(self) ELSE formatAsUUID(toBytes(self).val)

getTimestamp(self) == self.timestamp
getScope(self) == self.scope
getEntropy(self) == U8(self.entropy)

\* other instanceof pULID
IsObject(o) == o # NoId

\* A comparison that looks at the timestamps only.
compareTimestampsOnly(self, other) ==
  IF ~IsObject(other) THEN Throw("pULIDError")
  ELSE IF NumLess(self.timestamp, other.timestamp) THEN Ok(0 - 1)
  ELSE IF NumLess(other.timestamp, self.timestamp) THEN Ok(1)
  ELSE Ok(0)

compare(self, other) ==
  IF ~IsObject(other) THEN Throw("pULIDError")
  ELSE LET thisStr == toString(self)
           otherStr == toString(other)
       IN IF ~thisStr.ok THEN thisStr
          ELSE IF ~otherStr.ok THEN otherStr
          ELSE IF StrLess(thisStr.val.s, otherStr.val.s) THEN Ok(0 - 1)
          ELSE IF StrLess(otherStr.val.s, thisStr.val.s) THEN Ok(1)
          ELSE Ok(0)

equals(self, other) ==
  IF ~compare(self, other).ok THEN compare(self, other)
  ELSE Ok(compare(self, other).val = 0)

\* pULID.fromBytes(bytes); any error of the try block is rethrown as a
\* pULIDParseError.
\* For a string of 16 characters bytes[i] is a character and
\* timestamp * 256 + bytes[i] a string, which validateTimestamp refuses.
fromBytes(bytes) ==
  IF Falsy(bytes) \/ ~HasLength(bytes, 16) THEN Throw("pULIDParseError")
  ELSE IF bytes.type = "string" THEN Throw("pULIDParseError")
  ELSE LET timestamp == bytesToTimestamp(bytes)
           scope == bytesToScope(bytes)
           entropy == bytesToEntropy(bytes)
           made == pULID(timestamp, ScopeV(scope), entropy)
       IN IF ~made.ok THEN Throw("pULIDParseError") ELSE made

\* parse without the try block: the error of decodeBase32 reaches the caller.
parseWithoutCatch(string) ==
  IF string.type # "string" THEN Throw("pULIDParseError")
  ELSE IF Len(string.s) # 26 THEN Throw("pULIDParseError")
  ELSE LET bytes == decodeBase32(string) IN
    IF ~bytes.ok THEN bytes ELSE fromBytes(bytes.val)

\* pULID.parse(string)
parse(string) ==
  IF string.type # "string" THEN Throw("pULIDParseError")
  ELSE IF Len(string.s) # 26 THEN Throw("pULIDParseError")
  ELSE LET bytes == decodeBase32(string) IN
    IF ~bytes.ok THEN Throw("pULIDParseError")
    ELSE IF ~fromBytes(bytes.val).ok THEN Throw("pULIDParseError")
    ELSE fromBytes(bytes.val)

\* pULID.fromUUID(uuid)
fromUUID(uuid) ==
  LET bytes == uuidToBytes(uuid) IN
    IF ~bytes.ok THEN Throw("pULIDParseError")
    ELSE IF ~fromBytes(bytes.val).ok THEN Throw("pULIDParseError")
    ELSE fromBytes(bytes.val)

\* !v for a number: undefined, NaN and 0 are falsy.
FalsyTimestamp(v) == v.kind \in {"undefined", "NaN"} \/ (v.kind = "int" /\ v.hi = 0 /\ v.lo = 0)

FalsyScope(v) == v.kind \in {"undefined", "NaN"} \/ (v.kind = "int" /\ v.n = 0)

\* pULID.generate(options); now is the value of Date.now() and random the
\* value of generateEntropy() at the call.
generate(options, now, random) ==
  LET timestamp == IF FalsyTimestamp(options.timestamp) THEN now ELSE options.timestamp
      scope == IF FalsyScope(options.scope) THEN ScopeV(1) ELSE options.scope
      entropy == IF Falsy(options.entropy) THEN random ELSE options.entropy
  IN pULID(timestamp, scope, entropy)

\* pULID.toJSON(): the fields and the two textual forms (the date field, an
\* ISO rendering of the timestamp, is left out).
toJSON(self) ==
  Ok([timestamp |-> self.timestamp, scope |-> self.scope, entropy |-> self.entropy,
      ulid |-> toString(self).val, uuid |-> toUUID(self).val])

\* pULID.isValid(string)
isValid(string) == IF parse(string).ok THEN Ok(TRUE) ELSE Ok(FALSE)

-----------------------------------------------------------------------------
(* generator.js: pULIDGenerator. A generator is [defaultScope, validateScope]. *)

\* validateScope is options.validateScope !== false.
pULIDGenerator(options) ==
  LET defaultScope == IF FalsyScope(options.defaultScope) THEN ScopeV(1) ELSE options.defaultScope
  IN IF options.validateScope /\ ~validateScope(defaultScope).ok THEN validateScope(defaultScope)
     ELSE Ok([defaultScope |-> defaultScope, validateScope |-> options.validateScope])

pULIDGenerator_generate(self, options, now, random) ==
  LET timestamp == IF FalsyTimestamp(options.timestamp) THEN now ELSE options.timestamp
      scope == IF options.scope.kind # "undefined" THEN options.scope ELSE self.defaultScope
      entropy == IF Falsy(options.entropy) THEN random ELSE options.entropy
  IN IF self.validateScope /\ ~validateScope(scope).ok THEN validateScope(scope)
     ELSE pULID(timestamp, scope, entropy)

\* setDefaultScope(scope): the generator after the call.
setDefaultScope(self, scope) ==
  IF self.validateScope /\ ~validateScope(scope).ok THEN validateScope(scope)
  ELSE Ok([self EXCEPT !.defaultScope = scope])

getDefaultScope(self) == self.defaultScope

-----------------------------------------------------------------------------
(* uuid.js: UUIDConverter.createUUID. *)

\* The integer the bit operators and Math.floor see in a number: the value
\* itself for an integer, the integer part for a fraction, 0 for what
\* converts to NaN.
IntegerSeen(timestamp) ==
  IF timestamp.kind \in {"int", "float"} THEN Num(timestamp.hi, timestamp.lo) ELSE Num(0, 0)

ScopeSeen(scope) == IF scope.kind \in {"int", "float"} THEN scope.n ELSE 0

\* createUUID(timestamp, scope, entropy): entropy.length of undefined or
\* null is a TypeError; (scope >> 8) & 0xff and scope & 0xff are the two low
\* bytes of the scope.
createUUID(timestamp, scope, entropy) ==
  IF entropy.type # "Uint8Array" THEN Throw("TypeError")
  ELSE IF Len(entropy.s) # 8 THEN Throw("pULIDUUIDError")
  ELSE formatAsUUID(
         U8(timestampToBytesLoop(IntegerSeen(timestamp), 5, <<0, 0, 0, 0, 0, 0>>)
            \o << (ScopeSeen(scope) \div 256) % 256, ScopeSeen(scope) % 256 >>
            \o entropy.s))

-----------------------------------------------------------------------------
(* entropy.js: EntropyGenerator. The environment is [webCrypto,            *)
(* nodeCrypto]: whether the global crypto.getRandomValues exists and       *)
(* whether require('crypto') succeeds.                                     *)

\* initRandomSource(): the function stored in this.getRandomBytes.
initRandomSource(env) ==
  IF env.webCrypto THEN Ok("crypto.getRandomValues")
  ELSE IF env.nodeCrypto THEN Ok("crypto.randomBytes")
  ELSE Throw("pULIDEntropyError")

\* new EntropyGenerator()
EntropyGenerator(env) ==
  IF ~initRandomSource(env).ok THEN initRandomSource(env)
  ELSE Ok([getRandomBytes |-> initRandomSource(env).val])

\* EntropyGenerator.generate(): one call of this.getRandomBytes(8); fails
\* tells whether the source throws and random is what it returns otherwise.
EntropyGenerator_generate(self, fails, random) ==
  IF fails THEN Throw("pULIDEntropyError") ELSE Ok(random)

\* The entropy source read at every call.
EntropyReadsAlways(options) == 1

\* The number of calls of entropyGenerator.generate() in one generate(options).
EntropyReads(options) == IF Falsy(options.entropy) THEN 1 ELSE 0

\* The source UUIDConverter.generateRandomUUID() takes its 16 bytes from.
generateRandomUUID_source(env) ==
  IF env.webCrypto THEN "crypto.getRandomValues" ELSE "Math.random"

\* UUIDConverter.generateRandomUUID(); secure and weak are the bytes the two
\* sources would give.
generateRandomUUID(env, secure, weak) ==
  IF env.webCrypto THEN formatAsUUID(secure) ELSE formatAsUUID(weak)

-----------------------------------------------------------------------------
(* Sampled inputs. *)

\* Background byte k of a sampled array: 0, 255, 254, ...
Bg(k) == (k * 255) % 256

\* The examples of test/debug-golang-bytes.test.js.
ExampleUlid567 == << 48, 49, 74, 74, 78, 49, 65, 68, 53, 66, 48, 56, 86, 74, 53, 83, 82, 66, 74, 65, 87, 67, 66, 87, 68, 81 >>
ExampleUuid567 == << 48, 49, 57, 52, 65, 65, 49, 53, 45, 51, 52, 65, 66, 45, 48, 50, 51, 55, 45, 50, 50, 69, 55, 45, 48, 66, 57, 50, 66, 56, 67, 53, 70, 49, 66, 55 >>
ExampleBytes567 == << 1, 148, 170, 21, 52, 171, 2, 55, 34, 231, 11, 146, 184, 197, 241, 183 >>
ExampleUlidMax == << 48, 49, 74, 74, 78, 48, 88, 81, 54, 89, 90, 90, 90, 78, 55, 87, 71, 82, 52, 78, 90, 80, 49, 67, 49, 81 >>
ExampleUuidMax == << 48, 49, 57, 52, 65, 65, 48, 69, 45, 68, 67, 68, 69, 45, 70, 70, 70, 70, 45, 53, 51, 70, 50, 45, 49, 56, 50, 53, 55, 70, 54, 48, 66, 48, 51, 55 >>
ExampleBytesMax == << 1, 148, 170, 14, 220, 222, 255, 255, 83, 242, 24, 37, 127, 96, 176, 55 >>
TestBytes == << 1, 2, 3, 4, 5, 6, 7, 8, 9, 10, 11, 12, 13, 14, 15, 16 >>

\* 16-byte arrays: every value of every byte over each background.
ByteArrays ==
  {[i \in 1..16 |-> IF i = p THEN v ELSE Bg(k)] : p \in 1..16, v \in 0..255, k \in 0..MaxBg}
    \cup {ExampleBytes567, ExampleBytesMax, TestBytes}

\* Arrays of another length, and no array.
BadByteInputs ==
  {U8([i \in 1..n |-> 0]) : n \in ({0} \cup ((16 - MaxLenDelta)..(16 + MaxLenDelta))) \ {16}}
    \cup {JsUndefined, JsNull}

\* Code units tried at every position of a text: all of ASCII, and units
\* beyond the 256 entries of the decoding table.
CharSamples == 0..127 \cup {128, 255, 256, 304, 8490, 65535}

\* A valid 26-character text per background: "000..0", "7ZZ..Z", "6YY..Y", ...
BaseText(k) ==
  [i \in 1..26 |-> IF i = 1 THEN ENCODING[((7 * k) % 8) + 1] ELSE ENCODING[((31 * k) % 32) + 1]]

Texts32 ==
  {[BaseText(k) EXCEPT ![p] = c] : k \in 0..MaxBg, p \in 1..26, c \in CharSamples}
    \cup {ExampleUlid567, ExampleUlidMax, LowerStr(ExampleUlid567)}

WrongLengthTexts ==
  {SubSeq(BaseText(k), 1, 26 - d) : k \in 0..MaxBg, d \in 1..MaxLenDelta}
    \cup {BaseText(k) \o [i \in 1..d |-> 48] : k \in 0..MaxBg, d \in 1..MaxLenDelta}
    \cup {<<>>}

NonStrings ==
  {JsUndefined, JsNull, Other("number"), Other("object"), U8([i \in 1..26 |-> 48])}

Text32Inputs == {Str(s) : s \in Texts32 \cup WrongLengthTexts} \cup NonStrings

\* A valid 36-character UUID per background: all '0', all 'f', all 'e', ...
BaseUuid(k) ==
  [i \in 1..36 |-> IF i \in {9, 14, 19, 24} THEN 45
                   ELSE IF (15 * k) % 16 < 10 THEN 48 + ((15 * k) % 16)
                   ELSE 87 + ((15 * k) % 16)]

UuidCharSamples ==
  (48..57) \cup (97..103) \cup (65..71) \cup {0, 32, 45, 47, 58, 64, 96, 120, 256, 65535}

UuidTexts ==
  {[BaseUuid(k) EXCEPT ![p] = c] : k \in 0..MaxBg, p \in 1..36, c \in UuidCharSamples}
    \cup {ExampleUuid567, ExampleUuidMax, LowerStr(ExampleUuid567)}

WrongLengthUuids ==
  {SubSeq(BaseUuid(k), 1, 36 - d) : k \in 0..MaxBg, d \in 1..MaxLenDelta}
    \cup {BaseUuid(k) \o [i \in 1..d |-> 48] : k \in 0..MaxBg, d \in 1..MaxLenDelta}
    \cup {RemoveHyphens(BaseUuid(k)) : k \in 0..MaxBg}

UuidInputs == {Str(s) : s \in UuidTexts \cup WrongLengthUuids} \cup NonStrings

-----------------------------------------------------------------------------
(* SpecText: the codecs and the parsing paths applied to one raw input.    *)
(* args is the input; mid the text an encoder produced; out the result of  *)
(* the last decoder or parser; x the identifier a parser returned.         *)

\* Values that are no byte array, given to pULID.fromBytes.
NotByteInputs == {Str([i \in 1..16 |-> 48]), Other("number"), Other("object")}

TextArgs ==
  {[kind |-> "bytes", v |-> U8(b)] : b \in ByteArrays}
    \cup {[kind |-> "notBytes", v |-> v] : v \in NotByteInputs}
    \cup {[kind |-> "bytes", v |-> v] : v \in BadByteInputs}
    \cup {[kind |-> "text32", v |-> v] : v \in Text32Inputs}
    \cup {[kind |-> "uuid", v |-> v] : v \in UuidInputs}

InitText ==
  /\ pc = "start"
  /\ args \in TextArgs
  /\ mid = Nothing
  /\ out = Nothing
  /\ x = NoId /\ y = NoId /\ z = NoId

\* The identifier a call returned, if it returned one.
Returned(r, old) == IF r.ok THEN r.val ELSE old

EncodeBase32 ==
  /\ pc = "start" /\ args.kind = "bytes"
  /\ mid' = encodeBase32(args.v)
  /\ pc' = "encoded"
  /\ UNCHANGED <<args, out, x, y, z>>

DecodeEncoded ==
  /\ pc = "encoded" /\ mid.ok
  /\ out' = decodeBase32(mid.val)
  /\ pc' = "roundtrip32"
  /\ UNCHANGED <<args, mid, x, y, z>>

FormatAsUUID ==
  /\ pc = "start" /\ args.kind = "bytes"
  /\ mid' = formatAsUUID(args.v)
  /\ pc' = "formatted"
  /\ UNCHANGED <<args, out, x, y, z>>

UuidToBytesFormatted ==
  /\ pc = "formatted" /\ mid.ok
  /\ out' = uuidToBytes(mid.val)
  /\ pc' = "roundtripUuid"
  /\ UNCHANGED <<args, mid, x, y, z>>

FromBytes ==
  /\ pc = "start" /\ args.kind \in {"bytes", "notBytes"}
  /\ out' = fromBytes(args.v)
  /\ x' = Returned(out', x)
  /\ pc' = "fromBytes"
  /\ UNCHANGED <<args, mid, y, z>>

DecodeBase32 ==
  /\ pc = "start" /\ args.kind = "text32"
  /\ out' = decodeBase32(args.v)
  /\ pc' = "decoded"
  /\ UNCHANGED <<args, mid, x, y, z>>

\* encodeBase32 of the bytes decodeBase32 returned.
EncodeDecoded ==
  /\ pc = "decoded" /\ out.ok
  /\ mid' = encodeBase32(out.val)
  /\ pc' = "recoded"
  /\ UNCHANGED <<args, out, x, y, z>>

Parse ==
  /\ pc = "start" /\ args.kind = "text32"
  /\ out' = parse(args.v)
  /\ x' = Returned(out', x)
  /\ pc' = "parsed"
  /\ UNCHANGED <<args, mid, y, z>>

UuidToBytes ==
  /\ pc = "start" /\ args.kind = "uuid"
  /\ out' = uuidToBytes(args.v)
  /\ pc' = "uuidDecoded"
  /\ UNCHANGED <<args, mid, x, y, z>>

\* uuidToBytes of the uppercase (out) and of the lowercase (mid) form of
\* the input string.
UuidToBytesBothCases ==
  /\ pc = "start" /\ args.kind = "uuid" /\ args.v.type = "string"
  /\ out' = uuidToBytes(Str(UpperStr(args.v.s)))
  /\ mid' = uuidToBytes(Str(LowerStr(args.v.s)))
  /\ pc' = "uuidCases"
  /\ UNCHANGED <<args, x, y, z>>

FromUUID ==
  /\ pc = "start" /\ args.kind = "uuid"
  /\ out' = fromUUID(args.v)
  /\ x' = Returned(out', x)
  /\ pc' = "fromUUID"
  /\ UNCHANGED <<args, mid, y, z>>

\* UUIDConverter.extractScope(uuid), after x = pULID.fromUUID(uuid) was
\* attempted on the same string.
ExtractScope ==
  /\ pc = "fromUUID"
  /\ out' = extractScope(args.v)
  /\ pc' = "scopeExtracted"
  /\ UNCHANGED <<args, mid, x, y, z>>

IsValid ==
  /\ pc = "start" /\ args.kind = "text32"
  /\ out' = isValid(args.v)
  /\ pc' = "validated"
  /\ UNCHANGED <<args, mid, x, y, z>>

\* pULID.isValid(x.toString())
IsValidOfString ==
  /\ pc = "xString" /\ mid.ok
  /\ out' = isValid(mid.val)
  /\ pc' = "xStringValid"
  /\ UNCHANGED <<args, mid, x, y, z>>

\* The conversions of the identifier x a parser returned.
ToStringOfX ==
  /\ pc \in {"fromBytes", "parsed", "fromUUID"} /\ out.ok
  /\ mid' = toString(x)
  /\ pc' = "xString"
  /\ UNCHANGED <<args, out, x, y, z>>

DecodeStringOfX ==
  /\ pc = "xString" /\ mid.ok
  /\ out' = decodeBase32(mid.val)
  /\ pc' = "xStringBytes"
  /\ UNCHANGED <<args, mid, x, y, z>>

ToUUIDOfX ==
  /\ pc \in {"fromBytes", "parsed", "fromUUID"} /\ out.ok
  /\ mid' = toUUID(x)
  /\ pc' = "xUuid"
  /\ UNCHANGED <<args, out, x, y, z>>

UuidToBytesOfX ==
  /\ pc = "xUuid" /\ mid.ok
  /\ out' = uuidToBytes(mid.val)
  /\ pc' = "xUuidBytes"
  /\ UNCHANGED <<args, mid, x, y, z>>

\* y = pULID.fromUUID(x.toUUID()), then y.toString().
FromUUIDOfX ==
  /\ pc = "xUuid" /\ mid.ok
  /\ out' = fromUUID(mid.val)
  /\ y' = Returned(out', y)
  /\ pc' = "yFromUuid"
  /\ UNCHANGED <<args, mid, x, z>>

ToStringOfY ==
  /\ pc = "yFromUuid" /\ out.ok
  /\ mid' = toString(y)
  /\ pc' = "yString"
  /\ UNCHANGED <<args, out, x, y, z>>

NextText ==
  \/ EncodeBase32 \/ DecodeEncoded
  \/ FormatAsUUID \/ UuidToBytesFormatted
  \/ FromBytes
  \/ DecodeBase32 \/ EncodeDecoded \/ Parse
  \/ UuidToBytes \/ UuidToBytesBothCases \/ FromUUID
  \/ ExtractScope
  \/ IsValid \/ IsValidOfString
  \/ ToStringOfX \/ DecodeStringOfX
  \/ ToUUIDOfX \/ UuidToBytesOfX
  \/ FromUUIDOfX \/ ToStringOfY

SpecText == InitText /\ [][NextText]_vars

-----------------------------------------------------------------------------
(* Properties of the codecs and of parsing (SpecText). *)

\* The alphabet 0123456789ABCDEFGHJKMNPQRSTVWXYZ as a set of code units.
AlphabetUnits ==
  (48..57) \cup (65..72) \cup {74, 75, 77, 78} \cup (80..84) \cup (86..90)

\* The characters a decoder is to accept: the alphabet, its lowercase forms,
\* and I, L, O, U in either case (that is, every digit and every letter).
AcceptedUnits == (48..57) \cup (65..90) \cup (97..122)

IsByteArray16(v) ==
  v.type = "Uint8Array" /\ Len(v.s) = 16 /\ \A i \in 1..16 : v.s[i] \in 0..255

\* C1: Base32 round trip. For every 16-byte array b, encodeBase32(b) is a
\* 26-character string over the alphabet, decodeBase32 accepts it, and
\* decodeBase32(encodeBase32(b)) is a 16-byte array equal to b.
C1_Base32RoundTrip ==
  /\ (pc = "encoded" /\ IsByteArray16(args.v)) =>
       /\ mid.ok
       /\ mid.val.type = "string"
       /\ Len(mid.val.s) = 26
       /\ \A i \in 1..26 : mid.val.s[i] \in AlphabetUnits
  /\ (pc = "roundtrip32" /\ IsByteArray16(args.v)) =>
       /\ out.ok
       /\ IsByteArray16(out.val)
       /\ out.val.s = args.v.s

\* C1 witness: an array whose byte 0 is >= 0x80 has been encoded and decoded
\* back to itself.
C1_Witness ==
  /\ pc = "roundtrip32"
  /\ IsByteArray16(args.v)
  /\ args.v.s[1] >= 128
  /\ out.ok
  /\ out.val.s = args.v.s

\* C2: hex/UUID round trip. For every 16-byte array b,
\* uuidToBytes(formatAsUUID(b)) is a 16-byte array equal to b.
C2_UuidRoundTrip ==
  (pc = "roundtripUuid" /\ IsByteArray16(args.v)) =>
    /\ mid.ok
    /\ out.ok
    /\ IsByteArray16(out.val)
    /\ out.val.s = args.v.s

\* C2 witness: an array with a byte below 16 (one hex digit before padding)
\* and a byte above 159 (a letter digit) has made the round trip.
C2_Witness ==
  /\ pc = "roundtripUuid"
  /\ IsByteArray16(args.v)
  /\ \E i \in 1..16 : args.v.s[i] \in 1..15
  /\ \E i \in 1..16 : args.v.s[i] > 159
  /\ out.ok
  /\ out.val.s = args.v.s

\* The 16 bytes a raw input stands for, when it is well formed.
InputBytes ==
  IF args.kind = "bytes" THEN (IF IsByteArray16(args.v) THEN Ok(args.v) ELSE Nothing)
  ELSE IF args.kind = "text32" THEN decodeBase32(args.v)
  ELSE uuidToBytes(args.v)

ScopeBytesAreZero == InputBytes.ok /\ InputBytes.val.s[7] = 0 /\ InputBytes.val.s[8] = 0

\* C6: reserved value. Every 26-character Base32 string and every
\* 36-character UUID string whose decoded bytes 6-7 are 0x0000 (and those 16
\* bytes given to fromBytes) is refused: parse, fromUUID and fromBytes fail
\* and return no identifier.
C6_ReservedScopeRefused ==
  (pc \in {"parsed", "fromUUID", "fromBytes"} /\ ScopeBytesAreZero) =>
    (~out.ok /\ x = NoId)

\* The first characters the overflow guard is to refuse: 8, 9 and every
\* letter except I, L, O (those map to 0 or 1), in either case, U included.
OverflowFirstUnits ==
  {56, 57} \cup (((65..90) \cup (97..122)) \ {73, 76, 79, 105, 108, 111})

Malformed32 ==
  \/ args.v.type # "string"
  \/ Len(args.v.s) # 26
  \/ \E i \in 1..26 : args.v.s[i] \notin AcceptedUnits

RECURSIVE IndexIn(_, _, _)
IndexIn(seq, c, i) ==
  IF i > Len(seq) THEN 0 - 1 ELSE IF seq[i] = c THEN i - 1 ELSE IndexIn(seq, c, i + 1)

FoldCase(c) == IF c \in 97..122 THEN c - 32 ELSE c

SymbolValue(c) ==
  IF FoldCase(c) \in {73, 76} THEN 1
  ELSE IF FoldCase(c) = 79 THEN 0
  ELSE IF FoldCase(c) = 85 THEN 22
  ELSE IndexIn(<< 48, 49, 50, 51, 52, 53, 54, 55, 56, 57, 65, 66, 67, 68, 69, 70, 71, 72,
                  74, 75, 77, 78, 80, 81, 82, 83, 84, 86, 87, 88, 89, 90 >>, FoldCase(c), 1)

\* A syntactically valid string: 26 accepted characters, the first standing
\* for a value <= 7.
SyntacticallyValid32(v) ==
  /\ v.type = "string"
  /\ Len(v.s) = 26
  /\ \A i \in 1..26 : v.s[i] \in AcceptedUnits
  /\ SymbolValue(v.s[1]) <= 7

\* The canonical form: uppercase, confusables replaced (I, L by 1; O by 0;
\* U by P, the symbol of value 22).
CanonicalUnit(c) ==
  IF FoldCase(c) \in {73, 76} THEN 49
  ELSE IF FoldCase(c) = 79 THEN 48
  ELSE IF FoldCase(c) = 85 THEN 80
  ELSE FoldCase(c)

Canonical(s) == [i \in 1..Len(s) |-> CanonicalUnit(s[i])]

C11_CanonicalAfterDigit ==
  (pc \in {"decoded", "recoded"} /\ SyntacticallyValid32(args.v) /\ args.v.s[1] \in 48..55) =>
    /\ out.ok
    /\ pc = "recoded" => (mid.ok /\ mid.val.s = Canonical(args.v.s))

\* A string of exactly 36 characters, hex digits of either case grouped
\* 8-4-4-4-12 by hyphens.
IsHexUnit(c) == c \in (48..57) \cup (65..70) \cup (97..102)

MatchesUuidPattern(v) ==
  /\ v.type = "string"
  /\ Len(v.s) = 36
  /\ \A i \in 1..36 : IF i \in {9, 14, 19, 24} THEN v.s[i] = 45 ELSE IsHexUnit(v.s[i])

UuidPos(h) ==
  h + 1 + (IF h >= 8 THEN 1 ELSE 0) + (IF h >= 12 THEN 1 ELSE 0)
        + (IF h >= 16 THEN 1 ELSE 0) + (IF h >= 20 THEN 1 ELSE 0)

\* The value of a lowercase hex digit.
LowerHexValue(c) == IF c \in 48..57 THEN c - 48 ELSE c - 87

\* s is the lowercase 8-4-4-4-12 text whose i-th pair is byte i of b.
IsUuidOf(s, b) ==
  /\ Len(s) = 36
  /\ \A i \in {9, 14, 19, 24} : s[i] = 45
  /\ \A h \in 0..31 : s[UuidPos(h)] \in (48..57) \cup (97..102)
  /\ \A i \in 0..15 :
       16 * LowerHexValue(s[UuidPos(2 * i)]) + LowerHexValue(s[UuidPos(2 * i + 1)]) = b[i + 1]

Canonical32(v) ==
  /\ v.type = "string"
  /\ Len(v.s) = 26
  /\ \A i \in 1..26 : v.s[i] \in AlphabetUnits
  /\ v.s[1] \in 48..55

ValidIdentifier(id) ==
  /\ id # NoId
  /\ id.timestamp.kind = "int"
  /\ id.timestamp.hi \in 0..(Limb - 1) /\ id.timestamp.lo \in 0..(Limb - 1)
  /\ id.scope \in 1..65535
  /\ Len(id.entropy) = 8
  /\ \A i \in 1..8 : id.entropy[i] \in 0..255

\* The input has the wrong type or the wrong length for the parser called.
WrongTypeOrLength ==
  IF args.kind \in {"bytes", "notBytes"} THEN ~IsByteArray16(args.v)
  ELSE IF args.kind = "text32" THEN (args.v.type # "string" \/ Len(args.v.s) # 26)
  ELSE (args.v.type # "string" \/ Len(args.v.s) # 36)

\* C17: parse failures are always typed errors. For every input, pULID.parse,
\* pULID.fromBytes and pULID.fromUUID either return a valid identifier or
\* throw a pULIDParseError: no other error class, no undefined/null, and no
\* identifier for an input of the wrong type or length.
C17_TypedParseErrors ==
  pc \in {"parsed", "fromBytes", "fromUUID"} =>
    /\ \/ (out.ok /\ x = out.val /\ ValidIdentifier(x))
       \/ (~out.ok /\ out.err = "pULIDParseError" /\ x = NoId)
    /\ WrongTypeOrLength => ~out.ok

\* C17 witness: pULID.parse has thrown a pULIDParseError for a 26-character
\* string that holds a character decodeBase32 refuses with a plain Error.
C17_Witness ==
  /\ pc = "parsed"
  /\ args.v.type = "string"
  /\ Len(args.v.s) = 26
  /\ \E i \in 1..26 : args.v.s[i] = 45
  /\ ~decodeBase32(args.v).ok /\ decodeBase32(args.v).err = "Error"
  /\ ~out.ok
  /\ out.err = "pULIDParseError"
  /\ x = NoId

\* C18: pULID.isValid(v) never throws and returns true if and only if
\* pULID.parse(v) succeeds; it returns true for every string produced by
\* toString() of a valid identifier and false for every string that is not
\* a well-formed 26-character pULID.
C18_IsValid ==
  /\ pc = "validated" =>
       /\ out.ok
       /\ out.val <=> parse(args.v).ok
       /\ Malformed32 => out.val = FALSE
  /\ pc = "xStringValid" => (out.ok /\ out.val = TRUE)

\* C18 on the strings whose code units are all below 256.
C18_IsValidBelow256 ==
  /\ (pc = "validated" /\ (args.v.type = "string" => \A i \in 1..Len(args.v.s) : args.v.s[i] < 256)) =>
       /\ out.ok
       /\ out.val <=> parse(args.v).ok
       /\ Malformed32 => out.val = FALSE
  /\ pc = "xStringValid" => (out.ok /\ out.val = TRUE)

\* pULID.parse of the Base32 form of the 16 bytes a UUID string stands for.
ParseOfSameBytes == parse(encodeBase32(uuidToBytes(args.v).val).val)

\* C20: one scope read-back convention on every path. For every 16-byte
\* value, pULID.parse(ulid).getScope(), pULID.fromUUID(uuid).getScope() and
\* UUIDConverter.extractScope(uuid) are the same number whenever the paths
\* succeed, and the paths succeed or fail together; a stored 65535 reads
\* back as the same value on all of them.
C20_OneScopeConvention ==
  pc = "scopeExtracted" =>
    /\ out.ok <=> (x # NoId)
    /\ out.ok =>
         /\ ParseOfSameBytes.ok
         /\ getScope(ParseOfSameBytes.val) = getScope(x)
         /\ out.val = getScope(x)

\* C20 with extractScope left out: parse and fromUUID read the same scope.
C20_ParseAndFromUUIDAgree ==
  pc = "scopeExtracted" =>
    /\ out.ok <=> (x # NoId)
    /\ out.ok =>
         /\ ParseOfSameBytes.ok
         /\ getScope(ParseOfSameBytes.val) = getScope(x)

-----------------------------------------------------------------------------
(* SpecId: one call of the constructor on sampled arguments, then the      *)
(* conversions of the object it returned and the parsing of their output.  *)
(* args is the argument triple; x the constructed object; mid the output   *)
(* of the last conversion; y the object parsed back; out the last result.  *)

\* 1469918176385 = 87613 * 2^24 + 15950977
ValidTimestamps ==
  { Num(0, 0), Num(0, 1), Num(0, 255), Num(0, 256), Num(0, Limb - 1), Num(1, 0),
    Num(256, 0), Num(87613, 15950977), Num(Limb \div 2, 0), Num(Limb - 1, Limb - 1) }

\* -1, 2^48, 2^48 + 1, a fraction, NaN, undefined, a string.
InvalidTimestamps ==
  { Num(0 - 1, Limb - 1), Num(Limb, 0), Num(Limb, 1),
    NotInt("float"), NotInt("NaN"), NotInt("undefined"), NotInt("string") }

TimestampInputs == ValidTimestamps \cup InvalidTimestamps

ValidScopes == {ScopeV(n) : n \in {0, 1, 255, 256, 567, 1000, 65534, 65535}}

InvalidScopes ==
  {ScopeV(n) : n \in {0 - 1, 65536, 65537}}
    \cup {NotIntScope("float"), NotIntScope("NaN"), NotIntScope("undefined"), NotIntScope("string")}

ScopeInputs == ValidScopes \cup InvalidScopes

Entropies8 ==
  {[i \in 1..8 |-> Bg(k)] : k \in 0..MaxBg} \cup {<< 0, 1, 2, 3, 4, 5, 6, 7 >>}

EntropyInputs ==
  {U8(e) : e \in Entropies8}
    \cup {U8([i \in 1..n |-> i]) : n \in ({0} \cup ((8 - MaxLenDelta)..(8 + MaxLenDelta))) \ {8}}
    \cup {JsUndefined, JsNull}

IdArgs ==
  {[timestamp |-> t, scope |-> s, entropy |-> e] :
     t \in TimestampInputs, s \in ScopeInputs, e \in EntropyInputs}

InitId ==
  /\ pc = "start"
  /\ args \in IdArgs
  /\ mid = Nothing
  /\ out = Nothing
  /\ x = NoId /\ y = NoId /\ z = NoId

New ==
  /\ pc = "start"
  /\ out' = pULID(args.timestamp, args.scope, args.entropy)
  /\ x' = Returned(out', x)
  /\ pc' = IF out'.ok THEN "made" ELSE "failed"
  /\ UNCHANGED <<args, mid, y, z>>

CallToBytes ==
  /\ pc = "made"
  /\ mid' = toBytes(x)
  /\ pc' = "bytes"
  /\ UNCHANGED <<args, out, x, y, z>>

CallToString ==
  /\ pc = "made"
  /\ mid' = toString(x)
  /\ pc' = "string"
  /\ UNCHANGED <<args, out, x, y, z>>

CallToUUID ==
  /\ pc = "made"
  /\ mid' = toUUID(x)
  /\ pc' = "uuid"
  /\ UNCHANGED <<args, out, x, y, z>>

ParseString ==
  /\ pc = "string" /\ mid.ok
  /\ out' = parse(mid.val)
  /\ y' = Returned(out', y)
  /\ pc' = "reparsed"
  /\ UNCHANGED <<args, mid, x, z>>

FromUUIDString ==
  /\ pc = "uuid" /\ mid.ok
  /\ out' = fromUUID(mid.val)
  /\ y' = Returned(out', y)
  /\ pc' = "reparsedUuid"
  /\ UNCHANGED <<args, mid, x, z>>

\* y.equals(x), for the object y parsed back.
Equals ==
  /\ pc \in {"reparsed", "reparsedUuid"} /\ out.ok
  /\ out' = equals(y, x)
  /\ pc' = IF pc = "reparsed" THEN "compared" ELSE "comparedUuid"
  /\ UNCHANGED <<args, mid, x, y, z>>

\* bytesToTimestamp, bytesToScope and bytesToEntropy of the encoding module
\* applied to the array toBytes() returned.
ExtractFields ==
  /\ pc = "bytes" /\ mid.ok
  /\ out' = Ok([timestamp |-> bytesToTimestamp(mid.val),
                scope |-> bytesToScope(mid.val),
                entropy |-> bytesToEntropy(mid.val)])
  /\ pc' = "unpacked"
  /\ UNCHANGED <<args, mid, x, y, z>>

\* Date.now() and the 8 random bytes at a call.
ClockSamples == { Num(87613, 15950977), Num(Limb - 1, Limb - 1) }

RandomSamples == { U8(<< 0, 1, 2, 3, 4, 5, 6, 7 >>), U8([i \in 1..8 |-> 255]) }

\* The options of new pULIDGenerator(options).
GeneratorOptions ==
  {[defaultScope |-> d, validateScope |-> v] :
     d \in {NotIntScope("undefined"), ScopeV(0), ScopeV(1), ScopeV(567), ScopeV(65535),
            ScopeV(65536)},
     v \in BOOLEAN}

\* pULID.generate(args)
Generate ==
  /\ pc = "start"
  /\ \E now \in ClockSamples, random \in RandomSamples :
       out' = generate(args, now, random)
  /\ x' = Returned(out', x)
  /\ pc' = IF out'.ok THEN "generated" ELSE "generateFailed"
  /\ UNCHANGED <<args, mid, y, z>>

\* new pULIDGenerator(options).generate(args); mid is the generator.
GeneratorGenerate ==
  /\ pc = "start"
  /\ \E options \in GeneratorOptions, now \in ClockSamples, random \in RandomSamples :
       /\ pULIDGenerator(options).ok
       /\ mid' = pULIDGenerator(options)
       /\ out' = pULIDGenerator_generate(pULIDGenerator(options).val, args, now, random)
  /\ x' = Returned(out', x)
  /\ pc' = IF out'.ok THEN "generatorGenerated" ELSE "generatorFailed"
  /\ UNCHANGED <<args, y, z>>

\* The argument triple packed into 16 bytes as given: the timestamp
\* big-endian, the scope big-endian with no normalization, the entropy.
PackableArgs ==
  /\ validateTimestamp(args.timestamp).ok
  /\ args.scope.kind = "int" /\ args.scope.n \in 0..65535
  /\ args.entropy.type = "Uint8Array" /\ Len(args.entropy.s) = 8

RawBytes ==
  U8(timestampToBytes(args.timestamp).val.s
       \o << args.scope.n \div 256, args.scope.n % 256 >> \o args.entropy.s)

\* pULID.fromBytes, pULID.parse and pULID.fromUUID of the packed bytes and
\* of their two textual forms.
FromBytesRaw ==
  /\ pc = "start" /\ PackableArgs
  /\ out' = fromBytes(RawBytes)
  /\ x' = Returned(out', x)
  /\ pc' = "rawFromBytes"
  /\ UNCHANGED <<args, mid, y, z>>

ParseRaw ==
  /\ pc = "start" /\ PackableArgs
  /\ mid' = encodeBase32(RawBytes)
  /\ out' = parse(mid'.val)
  /\ x' = Returned(out', x)
  /\ pc' = "rawParsed"
  /\ UNCHANGED <<args, y, z>>

FromUUIDRaw ==
  /\ pc = "start" /\ PackableArgs
  /\ mid' = formatAsUUID(RawBytes)
  /\ out' = fromUUID(mid'.val)
  /\ x' = Returned(out', x)
  /\ pc' = "rawFromUUID"
  /\ UNCHANGED <<args, y, z>>

\* createUUID(args.timestamp, args.scope, args.entropy)
CreateUUID ==
  /\ pc = "start"
  /\ out' = createUUID(args.timestamp, args.scope, args.entropy)
  /\ mid' = out'
  /\ pc' = IF out'.ok THEN "createdUuid" ELSE "createUuidFailed"
  /\ UNCHANGED <<args, x, y, z>>

\* The exported timestampToBytes(args.timestamp)
TimestampToBytes ==
  /\ pc = "start"
  /\ mid' = timestampToBytes(args.timestamp)
  /\ out' = mid'
  /\ pc' = IF mid'.ok THEN "timestampBytes" ELSE "timestampBytesFailed"
  /\ UNCHANGED <<args, x, y, z>>

\* The exported bytesToTimestamp of the 6 bytes timestampToBytes returned
BytesToTimestamp ==
  /\ pc = "timestampBytes"
  /\ out' = TimestampGenerator_bytesToTimestamp(mid.val)
  /\ pc' = "timestampBack"
  /\ UNCHANGED <<args, mid, x, y, z>>

\* The exported bytesToTimestamp of the 16 bytes of an identifier
BytesToTimestampOfId ==
  /\ pc = "bytes"
  /\ out' = TimestampGenerator_bytesToTimestamp(mid.val)
  /\ pc' = "timestampOfId"
  /\ UNCHANGED <<args, mid, x, y, z>>

NextId ==
  \/ New
  \/ CreateUUID
  \/ TimestampToBytes \/ BytesToTimestamp \/ BytesToTimestampOfId
  \/ Generate \/ GeneratorGenerate
  \/ FromBytesRaw \/ ParseRaw \/ FromUUIDRaw
  \/ ExtractFields
  \/ CallToBytes \/ CallToString \/ CallToUUID
  \/ ParseString \/ FromUUIDString
  \/ Equals

SpecId == InitId /\ [][NextId]_vars

-----------------------------------------------------------------------------
(* Properties of construction and of the round trip (SpecId). *)

\* C3: identifier round trip. For every valid identifier x,
\* pULID.fromUUID(x.toUUID()) and pULID.parse(x.toString()) succeed and
\* return an identifier with the timestamp, scope (getScope()) and entropy
\* of x, and equals(x) is true of it.
C3_IdentifierRoundTrip ==
  /\ pc \in {"string", "uuid"} => mid.ok
  /\ pc \in {"reparsed", "reparsedUuid"} =>
       /\ out.ok
       /\ y # NoId
       /\ getTimestamp(y) = getTimestamp(x)
       /\ getScope(y) = getScope(x)
       /\ getEntropy(y) = getEntropy(x)
  /\ pc \in {"compared", "comparedUuid"} => (out.ok /\ out.val = TRUE)

\* C3 witness: an identifier built with the largest timestamp and public
\* scope 0 has been parsed back from its UUID and found equal.
C3_Witness ==
  /\ pc = "comparedUuid"
  /\ args.timestamp = Num(Limb - 1, Limb - 1)
  /\ args.scope = ScopeV(0)
  /\ getScope(y) = 65535
  /\ out.ok /\ out.val = TRUE

AcceptableArgs ==
  /\ args.timestamp.kind = "int"
  /\ args.timestamp.hi \in 0..(Limb - 1)
  /\ args.timestamp.lo \in 0..(Limb - 1)
  /\ args.scope.kind = "int"
  /\ args.scope.n \in 0..65535
  /\ args.entropy.type = "Uint8Array"
  /\ Len(args.entropy.s) = 8

-----------------------------------------------------------------------------
(* SpecOrder: three identifiers x, y, z built by the constructor; their    *)
(* strings are taken, then the comparisons of the pairs are called one by  *)
(* one. args holds the three toString() results, mid the sequence of the   *)
(* compare() results so far, out the result of the last call.              *)

OrderTimestamps == { Num(0, 255), Num(0, 256), Num(Limb - 1, Limb - 1) }

OrderScopes == { ScopeV(0), ScopeV(255), ScopeV(256) }

OrderEntropies ==
  { U8(<< 0, 0, 0, 0, 0, 0, 0, 1 >>), U8(<< 1, 0, 0, 0, 0, 0, 0, 0 >>),
    U8([i \in 1..8 |-> 255]) }

OrderIds ==
  { pULID(t, s, e).val : t \in OrderTimestamps, s \in OrderScopes, e \in OrderEntropies }

\* The third identifier is drawn with the all-ones entropy only.
OrderIdsZ ==
  { pULID(t, s, U8([i \in 1..8 |-> 255])).val : t \in OrderTimestamps, s \in OrderScopes }

\* The receiver and the argument of the k-th compare() call.
ComparePairs == << <<1, 2>>, <<2, 1>>, <<2, 3>>, <<1, 3>>, <<1, 1>> >>

IdAt(i) == IF i = 1 THEN x ELSE IF i = 2 THEN y ELSE z

InitOrder ==
  /\ pc = "start"
  /\ x \in OrderIds /\ y \in OrderIds /\ z \in OrderIdsZ
  /\ args = << >>
  /\ mid = << >>
  /\ out = Nothing

Stringify ==
  /\ pc = "start"
  /\ args' = << toString(x), toString(y), toString(z) >>
  /\ pc' = "comparing"
  /\ UNCHANGED <<mid, out, x, y, z>>

Compare ==
  /\ pc = "comparing"
  /\ Len(mid) < Len(ComparePairs)
  /\ LET pair == ComparePairs[Len(mid) + 1] IN
       /\ out' = compare(IdAt(pair[1]), IdAt(pair[2]))
       /\ mid' = Append(mid, out')
  /\ UNCHANGED <<pc, args, x, y, z>>

\* x.equals(y), after the comparisons.
EqualsXY ==
  /\ pc = "comparing"
  /\ Len(mid) = Len(ComparePairs)
  /\ out' = equals(x, y)
  /\ pc' = "equals"
  /\ UNCHANGED <<args, mid, x, y, z>>

NextOrder == Stringify \/ Compare \/ EqualsXY

SpecOrder == InitOrder /\ [][NextOrder]_vars

-----------------------------------------------------------------------------
(* Properties of the order (SpecOrder). *)

\* C4: monotonicity. For any two identifiers constructed with
\* x.timestamp < y.timestamp and arbitrary valid scopes and entropies,
\* x.toString() < y.toString() under code-unit string comparison.
C4_Monotonicity ==
  pc # "start" =>
    \A i \in 1..3, j \in 1..3 :
      NumLess(getTimestamp(IdAt(i)), getTimestamp(IdAt(j))) =>
        /\ args[i].ok /\ args[j].ok
        /\ StrLess(args[i].val.s, args[j].val.s)
        /\ ~StrLess(args[j].val.s, args[i].val.s)

\* C4 witness: x has the smaller timestamp but the larger scope and
\* entropy, and its string is the smaller one.
C4_Witness ==
  /\ pc # "start"
  /\ getTimestamp(x) = Num(0, 255) /\ getTimestamp(y) = Num(0, 256)
  /\ getScope(x) = 65535 /\ getScope(y) = 255
  /\ getEntropy(x) = U8([i \in 1..8 |-> 255])
  /\ getEntropy(y) = U8(<< 0, 0, 0, 0, 0, 0, 0, 1 >>)
  /\ StrLess(args[1].val.s, args[2].val.s)

\* Byte-wise lexicographic comparison of two byte sequences: -1, 0 or 1.
RECURSIVE ByteWise(_, _)
ByteWise(a, b) ==
  IF a = << >> /\ b = << >> THEN 0
  ELSE IF a = << >> THEN 0 - 1
  ELSE IF b = << >> THEN 1
  ELSE IF Head(a) < Head(b) THEN 0 - 1
  ELSE IF Head(a) > Head(b) THEN 1
  ELSE ByteWise(Tail(a), Tail(b))

\* C5: total order. x.compare(y) returns -1, 0 or 1 exactly as the
\* byte-wise lexicographic comparison of x.toBytes() and y.toBytes() is
\* less, equal or greater; compare is 0 (equals is true) if and only if
\* all 16 stored bytes are equal; compare is antisymmetric and transitive.
C5_TotalOrder ==
  /\ \A k \in 1..Len(mid) :
       LET a == IdAt(ComparePairs[k][1])
           b == IdAt(ComparePairs[k][2])
       IN /\ mid[k].ok
          /\ mid[k].val \in {0 - 1, 0, 1}
          /\ mid[k].val = ByteWise(toBytes(a).val.s, toBytes(b).val.s)
          /\ (mid[k].val = 0) <=> (toBytes(a).val.s = toBytes(b).val.s)
  /\ Len(mid) >= 2 => mid[1].val = 0 - mid[2].val
  /\ Len(mid) >= 4 =>
       /\ (mid[1].val <= 0 /\ mid[3].val <= 0) => mid[4].val <= 0
       /\ (mid[1].val <= 0 /\ mid[3].val <= 0 /\ mid[4].val = 0) =>
            (mid[1].val = 0 /\ mid[3].val = 0)
  /\ pc = "equals" =>
       /\ out.ok
       /\ out.val <=> (mid[1].val = 0)
       /\ out.val <=> (toBytes(x).val.s = toBytes(y).val.s)

\* C5 witness: x and y have the same timestamp and scope and differ in the
\* entropy only; x.compare(y) = -1, y.compare(x) = 1, and equals is false.
C5_Witness ==
  /\ pc = "equals"
  /\ getTimestamp(x) = getTimestamp(y)
  /\ getScope(x) = getScope(y)
  /\ getEntropy(x) # getEntropy(y)
  /\ mid[1] = Ok(0 - 1) /\ mid[2] = Ok(1)
  /\ out.ok /\ out.val = FALSE

-----------------------------------------------------------------------------
(* Properties of every identifier the producers return (SpecId). *)

\* The scope is in 1..65535 and no form of the identifier has 00 00 in
\* bytes 6-7.
StoredScopeNonZero(id) ==
  /\ getScope(id) \in 1..65535
  /\ toBytes(id).ok
  /\ << toBytes(id).val.s[7], toBytes(id).val.s[8] >> # << 0, 0 >>
  /\ 256 * toBytes(id).val.s[7] + toBytes(id).val.s[8] = getScope(id)
  /\ decodeBase32(toString(id).val).val.s = toBytes(id).val.s
  /\ uuidToBytes(toUUID(id).val).val.s = toBytes(id).val.s

\* C14: stored-scope invariant. Every identifier returned by new pULID,
\* pULID.generate, pULIDGenerator.generate, pULID.parse, pULID.fromBytes or
\* pULID.fromUUID has getScope() in 1..65535, and bytes 6-7 of its toBytes(),
\* toString() and toUUID() forms never encode the value 0.
C14_StoredScope ==
  /\ x # NoId => StoredScopeNonZero(x)
  /\ y # NoId => StoredScopeNonZero(y)
  /\ pc \in {"made", "generated", "generatorGenerated", "rawFromBytes", "rawParsed",
             "rawFromUUID"} => (out.ok /\ x = out.val)

\* C14 witness: pULID.parse has returned an identifier for a string whose
\* bytes 6-7 are 00 00; its scope is 65535.
C14_Witness ==
  /\ pc = "rawParsed"
  /\ args.scope = ScopeV(0)
  /\ out.ok
  /\ getScope(x) = 65535
  /\ toBytes(x).val.s[7] = 255

\* The six big-endian bytes of a timestamp held in two 24-bit limbs.
BigEndian6(n) ==
  << n.hi \div 65536, (n.hi \div 256) % 256, n.hi % 256,
     n.lo \div 65536, (n.lo \div 256) % 256, n.lo % 256 >>

\* C15: field packing. For every valid timestamp t, scope s in 1..65535 and
\* 8-byte entropy e, new pULID(t, s, e).toBytes() is a 16-byte array with
\* bytes 0-5 = t big-endian, bytes 6-7 = s big-endian and bytes 8-15 = e,
\* and bytesToTimestamp, bytesToScope and bytesToEntropy of that array
\* return exactly (t, s, e).
C15_FieldPacking ==
  (pc \in {"bytes", "unpacked"} /\ args.scope.n \in 1..65535) =>
    /\ mid.ok
    /\ IsByteArray16(mid.val)
    /\ SubSeq(mid.val.s, 1, 6) = BigEndian6(args.timestamp)
    /\ SubSeq(mid.val.s, 7, 8) = << args.scope.n \div 256, args.scope.n % 256 >>
    /\ SubSeq(mid.val.s, 9, 16) = args.entropy.s
    /\ pc = "unpacked" =>
         /\ out.val.timestamp = args.timestamp
         /\ out.val.scope = args.scope.n
         /\ out.val.entropy = args.entropy

\* C15 witness: timestamp 1469918176385, scope 1000 and entropy 00..07 have
\* been packed and unpacked.
C15_Witness ==
  /\ pc = "unpacked"
  /\ args.timestamp = Num(87613, 15950977)
  /\ args.scope = ScopeV(1000)
  /\ args.entropy = U8(<< 0, 1, 2, 3, 4, 5, 6, 7 >>)
  /\ out.val.timestamp = args.timestamp
  /\ out.val.scope = 1000
  /\ out.val.entropy = args.entropy

\* The scenario: timestamp 1469918176385, public scope 1000, entropy
\* 00 01 02 03 04 05 06 07, constructed and packed.
ScenarioPacked ==
  /\ pc = "bytes"
  /\ args.timestamp = Num(87613, 15950977)
  /\ args.scope = ScopeV(1000)
  /\ args.entropy = U8(<< 0, 1, 2, 3, 4, 5, 6, 7 >>)

\* C19 as stated: the scenario packs (toBytes()) to the bytes
\* 00 00 15 59 A3 F8 EC 03 01 00 01 02 03 04 05 06 07.
C19_ScenarioAsStated ==
  ScenarioPacked =>
    (mid.ok /\ mid.val.s = << 0, 0, 21, 89, 163, 248, 236, 3, 1, 0, 1, 2, 3, 4, 5, 6, 7 >>)

\* C19, amended: the scenario packs to the 16 bytes
\* 01 56 3D F3 64 81 03 E8 00 01 02 03 04 05 06 07 (1469918176385 =
\* 0x01563DF36481 and 1000 = 0x03E8, both big-endian).
C19_Scenario ==
  ScenarioPacked =>
    (mid.ok /\ mid.val.s = << 1, 86, 61, 243, 100, 129, 3, 232, 0, 1, 2, 3, 4, 5, 6, 7 >>)

\* C19 witness: the scenario has been constructed and packed into 16 bytes.
C19_Witness ==
  /\ ScenarioPacked
  /\ mid.ok
  /\ Len(mid.val.s) = 16
  /\ mid.val.s[1] = 1 /\ mid.val.s[8] = 232

-----------------------------------------------------------------------------
(* Segmentation of the string (SpecOrder). *)

\* The positions (from 1) at which the strings of identifiers i and j differ.
DiffPositions(i, j) == {k \in 1..26 : args[i].val.s[k] # args[j].val.s[k]}

SameTimestamp(i, j) == getTimestamp(IdAt(i)) = getTimestamp(IdAt(j))
SameScope(i, j) == getScope(IdAt(i)) = getScope(IdAt(j))
SameEntropy(i, j) == getEntropy(IdAt(i)) = getEntropy(IdAt(j))

-----------------------------------------------------------------------------
(* Order of validation in the constructor (SpecId). *)

TimestampAcceptable ==
  /\ args.timestamp.kind = "int"
  /\ args.timestamp.hi \in 0..(Limb - 1)
  /\ args.timestamp.lo \in 0..(Limb - 1)

ScopeAcceptable == args.scope.kind = "int" /\ args.scope.n \in 0..65535

EntropyAcceptable == args.entropy.type = "Uint8Array" /\ Len(args.entropy.s) = 8

\* C22: validation order on construction. new pULID validates the timestamp
\* first, then the scope, then the entropy length: the error thrown is the
\* timestamp error if the timestamp is invalid, otherwise the scope error if
\* the scope is invalid, otherwise the entropy-length error; no field is
\* stored before all three checks pass.
C22_ValidationOrder ==
  pc = "failed" =>
    /\ ~out.ok
    /\ x = NoId
    /\ out.err = IF ~TimestampAcceptable THEN "pULIDTimestampError"
                 ELSE IF ~ScopeAcceptable THEN "pULIDScopeError"
                 ELSE "pULIDError"
    /\ ~EntropyAcceptable \/ ~ScopeAcceptable \/ ~TimestampAcceptable

\* C22 witness: all three arguments are invalid and the timestamp error was
\* thrown.
C22_Witness ==
  /\ pc = "failed"
  /\ ~TimestampAcceptable /\ ~ScopeAcceptable /\ ~EntropyAcceptable
  /\ out.err = "pULIDTimestampError"
  /\ x = NoId

-----------------------------------------------------------------------------
(* SpecHeap: arrays as shared, writable storage. mid is the heap, a         *)
(* sequence of arrays indexed by address; args.entropy is the address of    *)
(* the caller's array; x.entropy the address of the array the object holds; *)
(* y the addresses the caller holds (its own array and every array a method *)
(* returned); z the fields and forms recorded right after construction.     *)

MaxHeap == 4
MaxWrites == 2

\* The array the constructor stores: new Uint8Array(entropy), a fresh array.
StoredEntropyAlias(heap, a) == a

StoredEntropyRef(heap, a) == Len(heap) + 1

\* The object with its entropy array read from the heap.
View(heap, obj) ==
  [timestamp |-> obj.timestamp, scope |-> obj.scope, entropy |-> heap[obj.entropy]]

HeapArgs ==
  {[timestamp |-> t, scope |-> s, entropy |-> 1, writes |-> 0] :
     t \in {Num(87613, 15950977)}, s \in {ScopeV(0), ScopeV(1000)}}

InitHeap ==
  /\ pc = "start"
  /\ args \in HeapArgs
  /\ mid \in {<< e.s >> : e \in RandomSamples}
  /\ out = Nothing
  /\ x = NoId
  /\ y = << 1 >>
  /\ z = Nothing

HeapNew ==
  /\ pc = "start"
  /\ LET made == pULID(args.timestamp, args.scope, U8(mid[args.entropy])) IN
       /\ made.ok
       /\ mid' = Append(mid, made.val.entropy)
       /\ x' = [timestamp |-> made.val.timestamp, scope |-> made.val.scope,
                entropy |-> StoredEntropyRef(mid, args.entropy)]
       /\ z' = Ok([timestamp |-> made.val.timestamp, scope |-> made.val.scope,
                   entropy |-> made.val.entropy,
                   bytes |-> toBytes(made.val).val,
                   string |-> toString(made.val).val,
                   uuid |-> toUUID(made.val).val])
       /\ out' = made
  /\ pc' = "live"
  /\ UNCHANGED <<args, y>>

\* getEntropy(): a fresh array handed to the caller.
HeapGetEntropy ==
  /\ pc = "live" /\ Len(mid) < MaxHeap
  /\ out' = getEntropy(View(mid, x))
  /\ mid' = Append(mid, out'.s)
  /\ y' = Append(y, Len(mid) + 1)
  /\ UNCHANGED <<pc, args, x, z>>

\* toBytes(): a fresh array handed to the caller.
HeapToBytes ==
  /\ pc = "live" /\ Len(mid) < MaxHeap
  /\ out' = toBytes(View(mid, x))
  /\ mid' = Append(mid, out'.val.s)
  /\ y' = Append(y, Len(mid) + 1)
  /\ UNCHANGED <<pc, args, x, z>>

HeapToString ==
  /\ pc = "live"
  /\ out' = toString(View(mid, x))
  /\ UNCHANGED <<pc, args, mid, x, y, z>>

HeapToUUID ==
  /\ pc = "live"
  /\ out' = toUUID(View(mid, x))
  /\ UNCHANGED <<pc, args, mid, x, y, z>>

HeapToJSON ==
  /\ pc = "live"
  /\ out' = toJSON(View(mid, x))
  /\ UNCHANGED <<pc, args, mid, x, y, z>>

\* x.equals(x), which calls compare.
HeapEquals ==
  /\ pc = "live"
  /\ out' = equals(View(mid, x), View(mid, x))
  /\ UNCHANGED <<pc, args, mid, x, y, z>>

\* The caller writes one byte into an array it holds.
HeapWrite ==
  /\ pc = "live" /\ args.writes < MaxWrites
  /\ \E k \in 1..Len(y) :
       \E i \in {1, Len(mid[y[k]])}, v \in {170} :
         /\ mid[y[k]][i] # v
         /\ mid' = [mid EXCEPT ![y[k]][i] = v]
  /\ args' = [args EXCEPT !.writes = @ + 1]
  /\ UNCHANGED <<pc, out, x, y, z>>

NextHeap ==
  \/ HeapNew
  \/ HeapGetEntropy \/ HeapToBytes
  \/ HeapToString \/ HeapToUUID \/ HeapToJSON \/ HeapEquals
  \/ HeapWrite

SpecHeap == InitHeap /\ [][NextHeap]_vars

\* C23: immutability. Once an identifier is constructed, no method changes
\* its timestamp, scope or entropy, and writing into the entropy array that
\* was passed to the constructor or into the arrays returned by getEntropy()
\* or toBytes() does not change the result of any later toBytes(),
\* toString() or toUUID() call.
C23_Immutability ==
  pc = "live" =>
    /\ x.timestamp = z.val.timestamp
    /\ x.scope = z.val.scope
    /\ mid[x.entropy] = z.val.entropy
    /\ toBytes(View(mid, x)).val = z.val.bytes
    /\ toString(View(mid, x)).val = z.val.string
    /\ toUUID(View(mid, x)).val = z.val.uuid

\* C23 witness: the caller has written into the array it passed to the
\* constructor and into an array toBytes() returned, and the identifier
\* still has the bytes recorded at construction.
C23_Witness ==
  /\ pc = "live"
  /\ args.writes = 2
  /\ mid[1] # z.val.entropy
  /\ \E k \in 2..Len(y) : Len(mid[y[k]]) = 16 /\ mid[y[k]] # z.val.bytes.s
  /\ toBytes(View(mid, x)).val = z.val.bytes

-----------------------------------------------------------------------------
(* Generation (SpecId). *)

\* C24: generation honours supplied options. For every valid timestamp t in
\* 0..2^48-1 (t = 0 included), scope s and 8-byte entropy e,
\* pULIDGenerator.generate({timestamp: t, scope: s, entropy: e}) and
\* pULID.generate(...) produce an identifier whose timestamp is t and whose
\* entropy is e: the clock and the entropy source are consulted only for
\* the fields that were not supplied.
C24_OptionsHonoured ==
  (pc \in {"generated", "generatorGenerated"} /\ AcceptableArgs) =>
    /\ out.ok
    /\ getTimestamp(x) = args.timestamp
    /\ getEntropy(x) = args.entropy

\* C24 for the timestamps other than 0.
C24_OptionsHonouredNonZero ==
  (pc \in {"generated", "generatorGenerated"} /\ AcceptableArgs
     /\ args.timestamp # Num(0, 0)) =>
    /\ out.ok
    /\ getTimestamp(x) = args.timestamp
    /\ getEntropy(x) = args.entropy

\* The timestamp and the entropy are valid; the scope is 0, given in
\* 1..65535, or omitted.
ValidButScope == TimestampAcceptable /\ EntropyAcceptable /\ args.timestamp # Num(0, 0)

\* The generator was constructed without a defaultScope option.
DefaultGenerator == mid.ok /\ mid.val.defaultScope = ScopeV(1)

\* C25: public scope 0 is treated the same on every construction path. For
\* the same valid timestamp and entropy, new pULID(t, 0, e),
\* pULID.generate({timestamp: t, scope: 0, entropy: e}) and
\* pULIDGenerator.generate({timestamp: t, scope: 0, entropy: e}) all yield
\* stored scope 65535, and only an omitted scope falls back to the default
\* scope 1.
C25_ScopeZeroEverywhere ==
  /\ (pc \in {"made", "generated", "generatorGenerated"} /\ ValidButScope
        /\ args.scope = ScopeV(0)) =>
       (out.ok /\ getScope(x) = 65535)
  /\ (pc \in {"generated", "generatorGenerated"} /\ ValidButScope
        /\ args.scope.kind = "int" /\ args.scope.n \in 1..65535) =>
       (out.ok /\ getScope(x) = args.scope.n)
  /\ (pc = "generated" /\ ValidButScope /\ args.scope.kind = "undefined") =>
       (out.ok /\ getScope(x) = 1)
  /\ (pc = "generatorGenerated" /\ ValidButScope /\ args.scope.kind = "undefined"
        /\ DefaultGenerator) =>
       (out.ok /\ getScope(x) = 1)

\* C25 with pULID.generate left out of the scope-0 case.
C25_ScopeZeroButGenerate ==
  /\ (pc \in {"made", "generatorGenerated"} /\ ValidButScope /\ args.scope = ScopeV(0)) =>
       (out.ok /\ getScope(x) = 65535)
  /\ (pc \in {"generated", "generatorGenerated"} /\ ValidButScope
        /\ args.scope.kind = "int" /\ args.scope.n \in 1..65535) =>
       (out.ok /\ getScope(x) = args.scope.n)
  /\ (pc = "generated" /\ ValidButScope /\ args.scope.kind = "undefined") =>
       (out.ok /\ getScope(x) = 1)
  /\ (pc = "generatorGenerated" /\ ValidButScope /\ args.scope.kind = "undefined"
        /\ DefaultGenerator) =>
       (out.ok /\ getScope(x) = 1)

-----------------------------------------------------------------------------
(* SpecGen: one generator through its life. args holds the environment,    *)
(* the constructor's options and the record of the calls made: lastSet is  *)
(* the argument of the last setDefaultScope that returned, call and prev   *)
(* what the last two successful generate calls worked from, reads          *)
(* and source the entropy reads of the last operation and where they went, *)
(* failed whether that read threw. mid is the generator, z its entropy     *)
(* generator, x and y the last two identifiers returned, out the last      *)
(* result.                                                                 *)

\* A browser or a recent Node.js, an older Node.js, and neither.
Envs ==
  {[webCrypto |-> TRUE, nodeCrypto |-> TRUE], [webCrypto |-> FALSE, nodeCrypto |-> TRUE],
   [webCrypto |-> FALSE, nodeCrypto |-> FALSE]}

GenOptions ==
  {[defaultScope |-> d, validateScope |-> TRUE] :
     d \in {NotIntScope("undefined"), ScopeV(0), ScopeV(567), ScopeV(65536)}}
    \cup {[defaultScope |-> NotIntScope("undefined"), validateScope |-> FALSE]}

SetScopes == {ScopeV(0), ScopeV(1000), ScopeV(65536)}

CallOptions ==
  {[timestamp |-> t, scope |-> s, entropy |-> e] :
     t \in {NotInt("undefined"), Num(0, 1)},
     s \in {NotIntScope("undefined"), ScopeV(567)},
     e \in {JsUndefined, U8(<< 0, 1, 2, 3, 4, 5, 6, 7 >>)}}

NoScope == NotIntScope("none")
NoCall == [reads |-> 0 - 1]

\* The values generate(options) works from: lines 49-51.
CallInputs(self, options, now, random) ==
  [options |-> options,
   timestamp |-> IF FalsyTimestamp(options.timestamp) THEN now ELSE options.timestamp,
   scope |-> IF options.scope.kind # "undefined" THEN options.scope ELSE self.defaultScope,
   entropy |-> IF Falsy(options.entropy) THEN random ELSE options.entropy,
   reads |-> EntropyReads(options)]

\* The timestamp, scope and entropy of a call record.
Worked(call) ==
  IF call = NoCall THEN NoCall
  ELSE [timestamp |-> call.timestamp, scope |-> call.scope, entropy |-> call.entropy,
        reads |-> call.reads]

InitGen ==
  /\ pc = "start"
  /\ args \in {[env |-> e, options |-> o, lastSet |-> NoScope, call |-> NoCall,
                prev |-> NoCall, reads |-> 0, source |-> "none", failed |-> FALSE] :
                 e \in Envs, o \in GenOptions}
  /\ mid = Nothing
  /\ out = Nothing
  /\ x = NoId /\ y = NoId
  /\ z = Nothing

\* new pULIDGenerator(args.options): the entropy generator is constructed
\* before the default scope is validated.
Construct ==
  /\ pc = "start"
  /\ out' = IF ~EntropyGenerator(args.env).ok THEN EntropyGenerator(args.env)
            ELSE pULIDGenerator(args.options)
  /\ mid' = IF out'.ok THEN out'.val ELSE mid
  /\ z' = IF out'.ok THEN EntropyGenerator(args.env).val ELSE z
  /\ pc' = IF out'.ok THEN "constructed" ELSE "constructFailed"
  /\ UNCHANGED <<args, x, y>>

\* A generator exists.
Live == mid # Nothing

SetDefaultScope ==
  /\ Live
  /\ \E scope \in SetScopes :
       /\ out' = setDefaultScope(mid, scope)
       /\ mid' = IF out'.ok THEN out'.val ELSE mid
       /\ args' = [args EXCEPT !.lastSet = IF out'.ok THEN scope ELSE @,
                               !.reads = 0, !.source = "none", !.failed = FALSE]
  /\ pc' = IF out'.ok THEN "set" ELSE "setFailed"
  /\ UNCHANGED <<x, y, z>>

GetDefaultScope ==
  /\ Live
  /\ out' = Ok(getDefaultScope(mid))
  /\ args' = [args EXCEPT !.reads = 0, !.source = "none", !.failed = FALSE]
  /\ pc' = "got"
  /\ UNCHANGED <<mid, x, y, z>>

\* generator.generate(options)
GeneratorCall ==
  /\ Live
  /\ \E options \in CallOptions :
     \E now \in IF FalsyTimestamp(options.timestamp) THEN ClockSamples ELSE {NotInt("none")} :
     \E random \in IF EntropyReads(options) = 1 THEN RandomSamples ELSE {JsUndefined} :
     \E fails \in IF EntropyReads(options) = 1 THEN BOOLEAN ELSE {FALSE} :
       LET reads == EntropyReads(options)
           read == IF reads = 1 THEN EntropyGenerator_generate(z, fails, random)
                   ELSE Ok(options.entropy)
       IN /\ out' = IF ~read.ok THEN read
                    ELSE pULIDGenerator_generate(mid, options, now, read.val)
          /\ args' = [args EXCEPT
                        !.call = IF out'.ok THEN CallInputs(mid, options, now, random) ELSE @,
                        !.prev = IF out'.ok THEN Worked(args.call) ELSE @,
                        !.reads = reads,
                        !.source = IF reads = 1 THEN z.getRandomBytes ELSE "none",
                        !.failed = (reads = 1 /\ fails)]
  /\ x' = Returned(out', x)
  /\ y' = IF out'.ok THEN x ELSE y
  /\ pc' = IF out'.ok THEN "generated" ELSE "generateFailed"
  /\ UNCHANGED <<mid, z>>

\* UUIDConverter.generateRandomUUID(): needs no generator.
GenerateRandomUUID ==
  /\ pc # "start"
  /\ out' = generateRandomUUID(args.env, U8(ExampleBytes567), U8(ExampleBytesMax))
  /\ args' = [args EXCEPT !.reads = 1, !.source = generateRandomUUID_source(args.env),
                          !.failed = FALSE]
  /\ pc' = "randomUuid"
  /\ UNCHANGED <<mid, x, y, z>>

NextGen ==
  \/ Construct
  \/ SetDefaultScope
  \/ GetDefaultScope
  \/ GeneratorCall
  \/ GenerateRandomUUID

SpecGen == InitGen /\ [][NextGen]_vars

\* The two calls worked from the same timestamp, scope and entropy.
SameInputs(a, b) ==
  a.timestamp = b.timestamp /\ a.scope = b.scope /\ a.entropy = b.entropy

NoSecureSource == ~args.env.webCrypto /\ ~args.env.nodeCrypto

\* C27 for the generator: without a secure source the construction fails
\* with a pULIDEntropyError and no generator exists; a generate call whose
\* entropy read throws fails with a pULIDEntropyError and returns no
\* identifier; and the generator reads a secure source only.
C27_GeneratorSurfaces ==
  /\ (NoSecureSource /\ pc # "start") => ~Live
  /\ (NoSecureSource /\ pc = "constructFailed") => out = Throw("pULIDEntropyError")
  /\ (pc \in {"generated", "generateFailed"} /\ args.failed) =>
       (pc = "generateFailed" /\ out = Throw("pULIDEntropyError"))
  /\ (pc \in {"generated", "generateFailed"}) =>
       args.source \in {"none", "crypto.getRandomValues", "crypto.randomBytes"}

\* C27: entropy failure is surfaced and never masked: the construction and
\* the generate call fail with a pULIDEntropyError when the secure source is
\* missing or throws, and no operation, generateRandomUUID included, takes
\* its bytes from a source that is not cryptographic.
C27_NoWeakFallback ==
  /\ C27_GeneratorSurfaces
  /\ args.source # "Math.random"

\* The expected default scope: the argument of the last setDefaultScope call
\* that returned, else the constructor's option, else 1.
ExpectedDefaultScope ==
  IF args.lastSet # NoScope THEN args.lastSet
  ELSE IF args.options.defaultScope.kind = "undefined" THEN ScopeV(1)
  ELSE args.options.defaultScope

\* generate() without a scope option used the generator's default scope.
UsedDefaultScope ==
  (pc = "generated" /\ args.call.options.scope.kind = "undefined") =>
     /\ args.call.scope = getDefaultScope(mid)
     /\ x = pULID(args.call.timestamp, getDefaultScope(mid), args.call.entropy).val

\* C28: for a generator with scope validation enabled, getDefaultScope()
\* returns the argument of the last setDefaultScope call that did not throw,
\* or the constructor's defaultScope option d if there was none (1 only when
\* d was omitted); a throwing setDefaultScope leaves it unchanged; and
\* generate() without a scope option uses exactly getDefaultScope().
C28_DefaultScope ==
  (Live /\ mid.validateScope) =>
     /\ getDefaultScope(mid) = ExpectedDefaultScope
     /\ (pc = "got") => out = Ok(ExpectedDefaultScope)
     /\ UsedDefaultScope

\* C28 for every constructor option but defaultScope 0.
C28_DefaultScopeButZero ==
  (Live /\ mid.validateScope /\ args.options.defaultScope # ScopeV(0)) =>
     /\ getDefaultScope(mid) = ExpectedDefaultScope
     /\ (pc = "got") => out = Ok(ExpectedDefaultScope)
     /\ UsedDefaultScope

-----------------------------------------------------------------------------
(* createUUID and the identifier type (SpecId). *)

\* Bytes 6-7 of the UUID that createUUID returned.
CreatedScopeBytes == SubSeq(uuidToBytes(out.val).val.s, 7, 8)

\* C29: createUUID agrees with the identifier type. createUUID(t, s, e)
\* succeeds exactly when new pULID(t, s, e) succeeds, and then returns the
\* string new pULID(t, s, e).toUUID() returns; it never returns a UUID whose
\* bytes 6-7 are 0x0000.
C29_CreateUUIDAgrees ==
  (pc \in {"createdUuid", "createUuidFailed"}) =>
     /\ out.ok <=> pULID(args.timestamp, args.scope, args.entropy).ok
     /\ out.ok => out = toUUID(pULID(args.timestamp, args.scope, args.entropy).val)
     /\ out.ok => CreatedScopeBytes # << 0, 0 >>

\* C29 for valid arguments with a scope in 1..65535: createUUID returns the
\* UUID of the identifier.
C29_CreateUUIDOfNonZeroScope ==
  (pc \in {"createdUuid", "createUuidFailed"} /\ AcceptableArgs /\ args.scope.n # 0) =>
     /\ out.ok
     /\ out = toUUID(pULID(args.timestamp, args.scope, args.entropy).val)
     /\ CreatedScopeBytes # << 0, 0 >>

-----------------------------------------------------------------------------
(* The exported timestamp helpers (SpecId). *)

\* The timestamp is an integer in 0..2^48-1.
TimestampInRange ==
  /\ args.timestamp.kind = "int"
  /\ args.timestamp.hi \in 0..(Limb - 1)
  /\ args.timestamp.lo \in 0..(Limb - 1)

\* C30: the timestamp byte helpers are inverse. timestampToBytes(t) returns
\* the 6-byte big-endian array of t for every integer t in 0..2^48-1 and
\* throws for any other t, and bytesToTimestamp accepts that array and
\* returns t.
C30_TimestampHelpersInverse ==
  /\ (pc = "timestampBytesFailed") => ~TimestampInRange
  /\ (pc \in {"timestampBytes", "timestampBack"}) =>
       /\ TimestampInRange
       /\ Len(mid.val.s) = 6
       /\ mid.val.s = BigEndian6(args.timestamp)
  /\ (pc = "timestampBack") => out = Ok(args.timestamp)

\* C30 without the way back, and the helper on the 16 bytes of an
\* identifier: timestampToBytes is as stated, bytesToTimestamp rejects the
\* 6-byte array with a pULIDTimestampError and returns the timestamp of a
\* 16-byte identifier.
C30_TimestampHelpersAsCoded ==
  /\ (pc = "timestampBytesFailed") => (~TimestampInRange /\ out = Throw("pULIDTimestampError"))
  /\ (pc \in {"timestampBytes", "timestampBack"}) =>
       /\ TimestampInRange
       /\ Len(mid.val.s) = 6
       /\ mid.val.s = BigEndian6(args.timestamp)
  /\ (pc = "timestampBack") => out = Throw("pULIDTimestampError")
  /\ (pc = "timestampOfId") => out = Ok(getTimestamp(x))

=============================================================================
